---- MODULE Spec2Model ----
(***************************************************************************)
(* State-machine model of the WhatsApp gateway supervisor.                 *)
(*                                                                         *)
(*   Spec, LifeSpec   the Node gateway (gateway_v3.js): connection         *)
(*            lifecycle, restart timers, signal handlers and the outbound  *)
(*            command queue with its retry loop.                           *)
(*   DrainSpec  the same machine while the session stays open, with the    *)
(*            worker's awaits and timers settling (weak fairness).         *)
(*   DirSpec  the Node gateway's contact directory and its merge channels. *)
(*   GoSpec   the Go gateway's command processing (one goroutine per       *)
(*            command line).                                               *)
(*   GoDirSpec  the Go gateway's contact directory.                        *)
(*   AuthSpec  the credential store on object storage (useR2AuthState, in  *)
(*            its two revisions) and startGateway's use of it.             *)
(*   ClearSpec  the --clear-state utility and clearState() of both        *)
(*            revisions, request by request.                               *)
(*   LimitSpec  one keys.set call and the storage requests it has in       *)
(*            flight.                                                      *)
(*   KeysSpec  keys.set and keys.get over the objects of two signal keys.  *)
(*   MediaSpec  two message handler runs saving media of the same bytes.   *)
(*   StdinSpec  the stdin stream cut into chunks, read by either gateway.  *)
(*   BackoffSpec  one transient close, its restart timer and its exit      *)
(*            timer, on a clock.                                           *)
(*   PresenceSpec  the command executor with the failures of its presence  *)
(*            signals recorded.                                            *)
(*   WsSpec  the dashboard's reconnecting WebSocket controller.            *)
(*   HistorySpec  the history batches either gateway emits.                *)
(*   PairSpec  the JS gateway requesting a pairing code.                   *)
(*   MergeSpec  the merge functions of both directories, applied to drawn  *)
(*            records: twice in a row, and pairwise in both orders.        *)
(*                                                                         *)
(* One TLA+ step is one macrotask of the Node event loop: a callback runs  *)
(* up to its next await of a timer or of a network call, together with     *)
(* every promise continuation that needs no timer or I/O to resume.        *)
(***************************************************************************)
EXTENDS Integers, Sequences, FiniteSets, TLC

\* ---------------------------------------------------------------- bounds
\* The same machine is explored under two bound profiles: Spec gives the
\* orchestrator more command lines, LifeSpec gives the adapter more close
\* callbacks.
MaxCmds == 2         \* Spec: command lines the orchestrator writes to stdin
MaxCloses == 1       \* Spec: connection 'close' callbacks of the adapter
MaxOpens == 1        \* both: connection 'open' callbacks of the adapter
LifeMaxCmds == 1     \* LifeSpec: command lines
LifeMaxCloses == 2   \* LifeSpec: connection 'close' callbacks
MaxGoSendTimers == 2 \* GoDirSpec: delayed sendContacts() goroutines pending at once
MaxWindowMerges == 3 \* DirSpec: merge handler runs within one debounce window
ListPageMax == 1000  \* ClearSpec: keys the backend returns in one listing page
MaxKeys == 2001      \* ClearSpec: keys under the session prefix
MaxTasks == 21       \* LimitSpec: (category, id) pairs of one keys.set call
MaxLines == 3        \* StdinSpec: lines the orchestrator writes to stdin
TickMs == 100        \* BackoffSpec: milliseconds the clock advances at a time
MaxClockMs == 5500   \* BackoffSpec: how long after the close the clock is followed
MaxSockets == 8      \* WsSpec: WebSockets one controller creates
MaxUpdates == 8      \* PairSpec: connection.update events carrying a qr or isNewLogin

\* ------------------------------------------------------ program constants
InitialRetries == 3        \* let retries = 3
LoggedOut == 401           \* DisconnectReason.loggedOut
RateLimited == 428         \* err.output?.statusCode === 428
ConflictDelay == 5000
NormalDelay == 500
LogoutDelay == 10000
FlushDelay == 200          \* requestRestartAndExit(reason, 200)
FirstReconnectDelay == 1000  \* let reconnectDelay = 1000
MaxReconnectDelay == 30000   \* Math.min(reconnectDelay * 2, 30000)
GoingAway == 1001            \* if (event.code === 1001) return
MaxHistoryPerContact == 200  \* const MAX_HISTORY_PER_CONTACT = 200 (messaging-history.set)
MaxPerContact == 200         \* const MAX_PER_CONTACT = 200 (messages.upsert)
GoMaxHistoryPerContact == 50 \* const MAX_HISTORY_PER_CONTACT = 50 (Go)

BatchLimit == 1000         \* objects.slice(i, i + 1000)
KeysSetLimit == 20         \* await pLimit(tasks, 20)

NoStatus == 0              \* 'N/A': the close carried no status code

CmdIds == 1..(MaxCmds + LifeMaxCmds)

\* command.type values.  "react" stands for delete_message too: sendReaction
\* and deleteMessage are each one awaited sock.sendMessage and nothing else.
\* "bogus" stands for every type the if-chain does not name.
CmdTypes == {"send_message", "react", "get_contacts", "bogus"}

\* an if-chain whose last branch sends whatever type is left
NetworkTypesAndRest == {"send_message", "react", "bogus"}
\* the types whose branch awaits sock.sendMessage
NetworkTypes == {"send_message", "react"}

\* What an awaited send can end in: success, or an error.  An error is its
\* Boom status code and the phrase of its message the catch block looks at.
SendErrors ==
    { [statusCode |-> RateLimited, message |-> "rate-overlimit"],
      [statusCode |-> NoStatus,    message |-> "Connection Closed"],
      [statusCode |-> NoStatus,    message |-> "timed out"],
      [statusCode |-> 404,         message |-> "item-not-found"],
      [statusCode |-> NoStatus,    message |-> "No text or media provided"] }

NoError == [statusCode |-> NoStatus, message |-> ""]

\* a classifier that takes every failure for a transient one
IsTransientAlways(err) == TRUE
\* const isTransient = statusCode === 428 || includes('Connection Closed') || includes('timed out')
IsTransient(err) ==
    \/ err.statusCode = RateLimited
    \/ err.message = "Connection Closed"
    \/ err.message = "timed out"

\* if (isTransient && retries > 1)
MayRetry(err, retries) == IsTransient(err) /\ retries > 1

\* a retry that forgets to count: retries is left as it was
RetriesAfterFailureStuck(retries) == retries
\* retries--
RetriesAfterFailure(retries) == retries - 1

\* while (retries > 0)
LoopCond(retries) == retries > 0

\* const shouldReconnect = statusCode !== DisconnectReason.loggedOut
ShouldReconnect(statusCode) == statusCode # LoggedOut

\* one delay for every transient close
RestartDelayFlat(isConflict) == NormalDelay
\* const delay = isConflict ? 5000 : 500
RestartDelay(isConflict) == IF isConflict THEN ConflictDelay ELSE NormalDelay

Delays == {NormalDelay, ConflictDelay, LogoutDelay}

\* the reason string requestRestartAndExit is given by the timer of each delay
ReasonOf(delay) ==
    CASE delay = LogoutDelay   -> "logged_out_401_cleared"
      [] delay = ConflictDelay -> "conflict"
      [] OTHER                 -> "transient"

VARIABLES
    pc,                \* "boot" | "running" | "exited": the process
    exitVia,           \* "none" | "restart" | "signal" | "startup": which process.exit ran
    connectCalls,      \* invocations of startGateway (each creates one socket)
    listenersOn,       \* the sock.ev.on(...) listeners are subscribed
    sockEnded,         \* sock.end() has been called by the gateway
    isConnected,
    messageQueue,      \* Seq of [id, type, late]; late: enqueued after an opened session closed
    isProcessingQueue,
    worker,            \* the processMessageQueue loop and the executeCommand call in it
    acks, errs,        \* per command id: `ack` / `error` events written to stdout
    nextId,            \* the id of the next command line
    timers,            \* pending restart timers, per delay
    exitTimers,        \* pending setTimeout(() => process.exit(0), delay)
    restartLog,        \* reasons of the restart_requested events written, in order
    opens, closes,     \* adapter callbacks delivered so far
    erasing,           \* clearStateFunc() calls in flight (logout path)
    erased,            \* clearStateFunc() calls that have settled (resolved or thrown)
    sigReceived        \* SIGINT or SIGTERM has been handled

\* the Node gateway's contact directory
VARIABLES
    contacts,          \* address -> [present, name, notify]
    contactsTimeout,   \* pending timers of debouncedSendContacts
    wroteContacts,     \* the directory handler that ran last wrote a `contacts` event
    snapshot,          \* the ids of the last `contacts` event written
    windowMerges,      \* merge handler runs since the debounce window opened
    windowFires        \* debounce timer expiries since the debounce window opened

\* the Go gateway, command side
VARIABLES
    goPc,              \* "running" | "exited"
    goConnected,       \* client.IsConnected()
    goNextId,          \* the id of the next command line
    goSpawned,         \* goroutines `go executeCommand(cmd)` not yet scheduled
    goRunning,         \* goroutines inside a blocking client.SendMessage
    goAcks, goErrs     \* per command id: `ack` / `error` events emitted

\* the Go gateway, contact directory
VARIABLES
    goContacts,        \* address -> [present, Name, Notify, PushName]
    goSendTimers,      \* pending `go func() { time.Sleep(..); sendContacts() }()`
    goSnapshot         \* the ids of the last `contacts` event emitted

\* the credential store and the start of the gateway
VARIABLES
    revision,          \* which revision of useR2AuthState the process loaded
    pairingMode,       \* phoneNumber is set: linking by pairing code
    bucket,            \* object key -> stored value, or Absent
    creds,             \* the in-memory credential record (state.creds)
    authPc,            \* "boot" | "loaded" | "socket" | "crashed"
    sockCreds,         \* the creds makeWASocket was given
    lastRead,          \* the last load / keys.get: what storage did, what the caller got
    lastSave           \* the last saveCreds / keys.set: what storage did, how it ended

\* DrainSpec's record of the stdin history
VARIABLES
    preOpen            \* ids of the commands enqueued before the first open event

\* the merge functions under test
VARIABLES
    mDir,              \* a Node directory built by merges alone
    mSwapped,          \* the same, its last two records applied in the other order
    mAgain,            \* the same, its last record applied once more
    gDir,              \* a Go directory built by merges alone
    gAgain             \* the same, its last event applied once more

\* the --clear-state utility and clearState()
VARIABLES
    backend,           \* "r2" if R2_BUCKET_NAME is set, else "local"
    clearPc,           \* "utility" | "load" | "list" | "delete" | "resolved" | "threw" | "wiped"
    exitCode,          \* NotExited, or the code process.exit was given
    remaining,         \* keys under the session prefix (files of AUTH_DIR)
    pageLeft,          \* keys of the listed page not yet in a delete request
    isTruncated,       \* IsTruncated of the last listing response
    clearFailed,       \* a storage request of the wipe failed
    listRequests,      \* ListObjectsV2Command requests sent
    perKeyDeletes,     \* DeleteObjectCommand requests sent
    maxBatch           \* most keys carried by one delete request

\* one keys.set call and its storage requests
VARIABLES
    limitPc,           \* "idle" | "running" | "resolved"
    tasksLen,          \* tasks.length
    index,             \* pLimit's index: tasks started so far
    inFlight,          \* write / delete requests sent and not yet settled
    started,           \* how often each task was invoked
    settled            \* requests settled

\* the signal keys of one session on object storage
VARIABLES
    keyStore,          \* object body per key file, Absent if there is no object
    setPc,             \* "idle" | "running" | "resolved": the keys.set call
    setData,           \* its argument: per (category, id) a value, Null, or Unnamed
    setPending,        \* key files whose request has not settled
    setFailed,         \* key files whose request failed
    before,            \* keyStore when the call was made
    got                \* what the last keys.get returned, and which of its reads failed

\* two messages.upsert handler runs, each on one media message of the same bytes
VARIABLES
    mediaPc,           \* per run: "idle" | "download" | "write" | "done"
    mediaExt,          \* per run: the extension its message type maps to
    mediaFiles,        \* extensions of the files of MEDIA_DIR named <digest>.<extension>
    returned           \* per run: the extension of the mediaPath returned, NoPath for null

\* the stdin stream and its reader
VARIABLES
    reader,            \* "node" (gateway_v3.js) | "go" (the Go gateway)
    stdinPc,           \* "reading" | "stopped"
    written,           \* the kind of every line written to stdin so far
    readPos,           \* pieces of the stream delivered to the reader
    lineBuffer,        \* the pieces of the line not yet ended by a newline
    enqueued           \* line numbers of the commands enqueued, in order

\* one transient close and the timers it leads to, with the time they take
VARIABLES
    backoffPc,         \* "open" | "closed" | "emitted" | "exited"
    clock,             \* milliseconds since the close callback
    closeConflict,     \* the close reason contains 'conflict'
    dueAt,             \* when the pending timer is due
    emittedAt          \* when restart_requested was written

\* PresenceSpec's record of the presence calls
VARIABLES
    presenceFailures   \* <<command id, signal>> of every presence call that failed

\* the dashboard's WebSocket controller (createWebSocket)
VARIABLES
    sockState,         \* the newest socket: "connecting" | "open" | "closingEarly" | "closing" | "closed"
    stopped,           \* controller.close() was called
    pingIntervals,     \* ping intervals running
    reconnectTimers,   \* reconnect timers pending
    timerDelay,        \* the delay the last reconnect timer was set with
    reconnectDelay,    \* the closure's reconnectDelay
    sockets,           \* WebSockets created
    consecutive        \* reconnect timers set since the last open event

\* history batches of either gateway
VARIABLES
    historyHandler,    \* the handler that ran last
    batch,             \* the messages it received
    emitted            \* the data of its history_messages event, by address

\* requesting a pairing code (connection.update of the JS gateway)
VARIABLES
    isPairingCodeRequested,
    registered,        \* state.creds.registered
    waiting,           \* callbacks in their 1500 ms wait
    requesting,        \* callbacks awaiting sock.requestPairingCode
    requestsMade,      \* calls of sock.requestPairingCode
    succeeded,         \* pairing_code events written
    failures,          \* requests that threw
    updates            \* connection.update events delivered

\* every gateway variable but isConnected
gatewayRest == <<pc, exitVia, connectCalls, listenersOn, sockEnded,
                 messageQueue, isProcessingQueue, worker, acks, errs, nextId,
                 timers, exitTimers, restartLog, opens, closes, erasing, erased,
                 sigReceived>>
gatewayVars == <<gatewayRest, isConnected>>
dirVars == <<contacts, contactsTimeout, wroteContacts, snapshot, windowMerges, windowFires>>
goVars == <<goPc, goConnected, goNextId, goSpawned, goRunning, goAcks, goErrs>>
goDirVars == <<goContacts, goSendTimers, goSnapshot>>
mergeVars == <<mDir, mSwapped, mAgain, gDir, gAgain>>
drainVars == <<preOpen>>
authVars == <<revision, pairingMode, bucket, creds, authPc, sockCreds, lastRead, lastSave>>
clearVars == <<backend, clearPc, exitCode, remaining, pageLeft, isTruncated,
               clearFailed, listRequests, perKeyDeletes, maxBatch>>
limitVars == <<limitPc, tasksLen, index, inFlight, started, settled>>
keysVars == <<keyStore, setPc, setData, setPending, setFailed, before, got>>
mediaVars == <<mediaPc, mediaExt, mediaFiles, returned>>
stdinVars == <<reader, stdinPc, written, readPos, lineBuffer, enqueued>>
backoffVars == <<backoffPc, clock, closeConflict, dueAt, emittedAt>>
presenceVars == <<presenceFailures>>
wsVars == <<sockState, stopped, pingIntervals, reconnectTimers, timerDelay, reconnectDelay,
            sockets, consecutive>>
historyVars == <<historyHandler, batch, emitted>>
pairVars == <<isPairingCodeRequested, registered, waiting, requesting, requestsMade, succeeded,
              failures, updates>>
oldVars == <<gatewayVars, dirVars, goVars, goDirVars, mergeVars, drainVars>>

\* what each part leaves alone
besideGateway == <<dirVars, goVars, goDirVars, mergeVars, drainVars, authVars, clearVars, limitVars, keysVars, mediaVars, stdinVars, backoffVars, presenceVars, wsVars, historyVars, pairVars>>
besideDir == <<gatewayRest, goVars, goDirVars, mergeVars, drainVars, authVars, clearVars, limitVars, keysVars, mediaVars, stdinVars, backoffVars, presenceVars, wsVars, historyVars, pairVars>>
besideGo == <<gatewayVars, dirVars, goDirVars, mergeVars, drainVars, authVars, clearVars, limitVars, keysVars, mediaVars, stdinVars, backoffVars, presenceVars, wsVars, historyVars, pairVars>>
besideGoDir == <<gatewayVars, dirVars, goVars, mergeVars, drainVars, authVars, clearVars, limitVars, keysVars, mediaVars, stdinVars, backoffVars, presenceVars, wsVars, historyVars, pairVars>>
besideMerge == <<gatewayVars, dirVars, goVars, goDirVars, drainVars, authVars, clearVars, limitVars, keysVars, mediaVars, stdinVars, backoffVars, presenceVars, wsVars, historyVars, pairVars>>
besideDrain == <<dirVars, goVars, goDirVars, mergeVars, authVars, clearVars, limitVars, keysVars, mediaVars, stdinVars, backoffVars, presenceVars, wsVars, historyVars, pairVars>>
besideAuth == <<gatewayVars, dirVars, goVars, goDirVars, mergeVars, drainVars, clearVars, limitVars, keysVars, mediaVars, stdinVars, backoffVars, presenceVars, wsVars, historyVars, pairVars>>
besideClear == <<oldVars, authVars, limitVars, keysVars, mediaVars, stdinVars, backoffVars, presenceVars, wsVars, historyVars, pairVars>>
besideLimit == <<oldVars, authVars, clearVars, keysVars, mediaVars, stdinVars, backoffVars, presenceVars, wsVars, historyVars, pairVars>>
besideKeys == <<oldVars, authVars, clearVars, limitVars, mediaVars, stdinVars, backoffVars, presenceVars, wsVars, historyVars, pairVars>>
besideMedia == <<oldVars, authVars, clearVars, limitVars, keysVars, stdinVars, backoffVars, presenceVars, wsVars, historyVars, pairVars>>
besideStdin == <<oldVars, authVars, clearVars, limitVars, keysVars, mediaVars, backoffVars, presenceVars, wsVars, historyVars, pairVars>>
besideBackoff == <<oldVars, authVars, clearVars, limitVars, keysVars, mediaVars, stdinVars,
                   presenceVars, wsVars, historyVars, pairVars>>
besideWs == <<oldVars, authVars, clearVars, limitVars, keysVars, mediaVars, stdinVars,
              backoffVars, presenceVars, historyVars, pairVars>>
besideHistory == <<oldVars, authVars, clearVars, limitVars, keysVars, mediaVars, stdinVars,
                   backoffVars, presenceVars, wsVars, pairVars>>
besidePair == <<oldVars, clearVars, limitVars, keysVars, mediaVars, stdinVars,
                backoffVars, presenceVars, wsVars, historyVars>>
besidePresence == <<dirVars, goVars, goDirVars, mergeVars, drainVars, authVars, clearVars,
                    limitVars, keysVars, mediaVars, stdinVars, backoffVars, wsVars, historyVars, pairVars>>

vars == <<oldVars, authVars, clearVars, limitVars, keysVars, mediaVars, stdinVars,
          backoffVars, presenceVars, wsVars, historyVars, pairVars>>

lifeVars == <<pc, exitVia, connectCalls, listenersOn, sockEnded, sigReceived>>
timerVars == <<timers, exitTimers, restartLog, erasing, erased>>
queueVars == <<messageQueue, isProcessingQueue, worker, acks, errs>>

NoCmd == [id |-> 0, type |-> "none", late |-> FALSE]

IdleWorker == [pc |-> "idle", cmd |-> NoCmd,
               retries |-> 0, attempts |-> 0, lastError |-> NoError]

GatewayInit ==
    /\ pc = "boot"
    /\ exitVia = "none"
    /\ connectCalls = 0
    /\ listenersOn = FALSE
    /\ sockEnded = FALSE
    /\ isConnected = FALSE
    /\ messageQueue = <<>>
    /\ isProcessingQueue = FALSE
    /\ worker = IdleWorker
    /\ acks = [i \in CmdIds |-> 0]
    /\ errs = [i \in CmdIds |-> 0]
    /\ nextId = 1
    /\ timers = [d \in Delays |-> 0]
    /\ exitTimers = 0
    /\ restartLog = <<>>
    /\ opens = 0
    /\ closes = 0
    /\ erasing = 0
    /\ erased = 0
    /\ sigReceived = FALSE

\* ------------------------------------------------------- command executor

\* sock.user: set by the adapter by the time it reports the session open
SockUser == opens > 0

\* !(!isConnected || !sock || !sock.user)
Ready(connected, user) == connected /\ user

\* One pass of the retry loop body up to its await: the network types await
\* sock.sendMessage; get_contacts runs sendContacts() and every other type runs
\* nothing, and both fall through to the ack and the 'paused' presence update.
BeginAttempt(w) ==
    IF w.cmd.type \in NetworkTypes
    THEN /\ worker' = [w EXCEPT !.pc = "sending", !.attempts = @ + 1]
         /\ UNCHANGED <<acks, errs>>
    ELSE /\ worker' = [w EXCEPT !.pc = "paused", !.attempts = @ + 1]
         /\ acks' = [acks EXCEPT ![w.cmd.id] = @ + 1]
         /\ UNCHANGED errs

\* const command = messageQueue.shift(); await executeCommand(command), up to
\* the first await of executeCommand.  A session that is not ready throws
\* 'Connection not ready', which the loop's catch turns into an error event
\* before it awaits the 300 ms pause.
Take(q, ready) ==
    LET cmd == Head(q) IN
    /\ messageQueue' = Tail(q)
    /\ IF ~ready
       THEN /\ errs' = [errs EXCEPT ![cmd.id] = @ + 1]
            /\ worker' = [IdleWorker EXCEPT !.pc = "pause", !.cmd = cmd]
            /\ UNCHANGED acks
       ELSE /\ worker' = [IdleWorker EXCEPT !.pc = "composing", !.cmd = cmd,
                                            !.retries = InitialRetries]
            /\ UNCHANGED <<acks, errs>>

\* processMessageQueue() called with the queue holding q
ProcessMessageQueue(q, ready) ==
    IF isProcessingQueue \/ q = <<>>
    THEN /\ messageQueue' = q
         /\ UNCHANGED <<isProcessingQueue, worker, acks, errs>>
    ELSE /\ isProcessingQueue' = TRUE
         /\ Take(q, ready)

\* presence calls outside try / catch: their failure leaves executeCommand
PresenceSurfacesFailure(presenceFailed) == presenceFailed
\* try { await sock.sendPresenceUpdate(..) } catch (e) { }
PresenceSurfaces(presenceFailed) == FALSE

\* what processMessageQueue's catch does with an error that left
\* executeCommand: an error event, then the 300 ms pause
CommandThrew ==
    /\ errs' = [errs EXCEPT ![worker.cmd.id] = @ + 1]
    /\ worker' = [worker EXCEPT !.pc = "pause"]
    /\ UNCHANGED acks

\* presenceSubscribe / sendPresenceUpdate('composing') settle; a failure is
\* caught and ignored, then the retry loop is entered
ComposingSettles(presenceFailed) ==
    /\ pc = "running"
    /\ worker.pc = "composing"
    /\ IF PresenceSurfaces(presenceFailed)
       THEN CommandThrew
       ELSE IF LoopCond(worker.retries)
       THEN BeginAttempt(worker)
       ELSE /\ worker' = [worker EXCEPT !.pc = "pause"]
            /\ UNCHANGED <<acks, errs>>
    /\ UNCHANGED <<messageQueue, isProcessingQueue>>
    /\ UNCHANGED <<lifeVars, timerVars, isConnected, nextId, opens, closes>>

ComposingDone == \E presenceFailed \in BOOLEAN : ComposingSettles(presenceFailed)

\* the awaited sock.sendMessage settles
SendDone ==
    /\ pc = "running"
    /\ worker.pc = "sending"
    /\ \E outcome \in {NoError} \cup SendErrors :
           IF outcome = NoError
           THEN /\ acks' = [acks EXCEPT ![worker.cmd.id] = @ + 1]
                /\ worker' = [worker EXCEPT !.pc = "paused"]
                /\ UNCHANGED errs
           ELSE IF MayRetry(outcome, worker.retries)
           THEN /\ worker' = [worker EXCEPT !.lastError = outcome,
                                            !.retries = RetriesAfterFailure(@),
                                            !.pc = "retryWait"]
                /\ UNCHANGED <<acks, errs>>
           ELSE /\ errs' = [errs EXCEPT ![worker.cmd.id] = @ + 1]
                /\ worker' = [worker EXCEPT !.lastError = outcome, !.pc = "pause"]
                /\ UNCHANGED acks
    /\ UNCHANGED <<messageQueue, isProcessingQueue>>
    /\ UNCHANGED <<lifeVars, timerVars, isConnected, nextId, opens, closes>>

\* the 2000 ms wait before `continue` expires
RetryTimer ==
    /\ pc = "running"
    /\ worker.pc = "retryWait"
    /\ IF LoopCond(worker.retries)
       THEN BeginAttempt(worker)
       ELSE /\ errs' = [errs EXCEPT ![worker.cmd.id] = @ + 1]
            /\ worker' = [worker EXCEPT !.pc = "pause"]
            /\ UNCHANGED acks
    /\ UNCHANGED <<messageQueue, isProcessingQueue>>
    /\ UNCHANGED <<lifeVars, timerVars, isConnected, nextId, opens, closes>>

\* sendPresenceUpdate('paused') settles (failure ignored); executeCommand
\* returns and the loop awaits its 300 ms pause
PausedSettles(presenceFailed) ==
    /\ pc = "running"
    /\ worker.pc = "paused"
    /\ IF PresenceSurfaces(presenceFailed)
       THEN CommandThrew
       ELSE /\ worker' = [worker EXCEPT !.pc = "pause"]
            /\ UNCHANGED <<acks, errs>>
    /\ UNCHANGED <<messageQueue, isProcessingQueue>>
    /\ UNCHANGED <<lifeVars, timerVars, isConnected, nextId, opens, closes>>

PausedDone == \E presenceFailed \in BOOLEAN : PausedSettles(presenceFailed)

\* a loop that ends after its first command
DequeuesOnce(q) == FALSE
\* while (messageQueue.length > 0)
KeepsDequeuing(q) == q # <<>>

\* the 300 ms pause expires: next loop iteration, or the loop ends
PauseTimer ==
    /\ pc = "running"
    /\ worker.pc = "pause"
    /\ IF KeepsDequeuing(messageQueue)
       THEN /\ Take(messageQueue, Ready(isConnected, SockUser))
            /\ UNCHANGED isProcessingQueue
       ELSE /\ isProcessingQueue' = FALSE
            /\ worker' = IdleWorker
            /\ UNCHANGED <<messageQueue, acks, errs>>
    /\ UNCHANGED <<lifeVars, timerVars, isConnected, nextId, opens, closes>>

\* process.stdin.on('data'): one well-formed command line
Stdin(maxCmds) ==
    /\ pc = "running"
    /\ nextId <= maxCmds
    /\ \E t \in CmdTypes :
         LET q == Append(messageQueue,
                         [id |-> nextId, type |-> t,
                          late |-> opens > 0 /\ closes > 0 /\ ~isConnected]) IN
         IF isConnected
         THEN ProcessMessageQueue(q, Ready(isConnected, SockUser))
         ELSE /\ messageQueue' = q
              /\ UNCHANGED <<isProcessingQueue, worker, acks, errs>>
    /\ nextId' = nextId + 1
    /\ UNCHANGED <<lifeVars, timerVars, isConnected, opens, closes>>

\* ------------------------------------------------- connection lifecycle

\* startGateway(): creates the socket and subscribes the listeners, or throws
\* and the .catch at the call site exits with code 1
StartGateway ==
    /\ pc = "boot"
    /\ connectCalls' = connectCalls + 1
    /\ \/ /\ pc' = "running"
          /\ listenersOn' = TRUE
          /\ UNCHANGED exitVia
       \/ /\ pc' = "exited"
          /\ exitVia' = "startup"
          /\ UNCHANGED listenersOn
    /\ UNCHANGED <<sockEnded, sigReceived, isConnected, nextId, opens, closes>>
    /\ UNCHANGED <<timerVars, queueVars>>

\* an open branch that marks the session connected and leaves the queue alone
OnOpenWithoutDrain(q) ==
    /\ messageQueue' = q
    /\ UNCHANGED <<isProcessingQueue, worker, acks, errs>>
\* the open branch's processMessageQueue(), with isConnected and sock.user set
OnOpen(q) == ProcessMessageQueue(q, Ready(TRUE, TRUE))

\* connection.update with connection === 'open'
ConnectionOpen(maxOpens) ==
    /\ pc = "running"
    /\ opens < maxOpens
    /\ opens' = opens + 1
    /\ isConnected' = TRUE
    /\ OnOpen(messageQueue)
    /\ UNCHANGED <<lifeVars, timerVars, nextId, closes>>

\* the old close branch: calls startGateway() again inside the same process
ReconnectInProcess(isConflict) ==
    /\ connectCalls' = connectCalls + 1
    /\ UNCHANGED <<timers, erasing>>
\* shouldReconnect branch: setTimeout(() => requestRestartAndExit(reason, 200), delay)
ScheduleRestart(isConflict) ==
    /\ timers' = [timers EXCEPT ![RestartDelay(isConflict)] = @ + 1]
    /\ UNCHANGED <<connectCalls, erasing>>

\* a logout branch that arms the cooldown without awaiting the erase
EraseWithoutAwait ==
    /\ erasing' = erasing + 1
    /\ timers' = [timers EXCEPT ![LogoutDelay] = @ + 1]
    /\ UNCHANGED connectCalls
\* logged-out branch up to `await clearStateFunc()`
BeginErase ==
    /\ erasing' = erasing + 1
    /\ UNCHANGED <<timers, connectCalls>>

\* the close branch of the connection.update handler
CloseHandler(statusCode, isConflict) ==
    /\ isConnected' = FALSE
    /\ IF ShouldReconnect(statusCode)
       THEN ScheduleRestart(isConflict)
       ELSE BeginErase

\* connection.update with connection === 'close', delivered by the adapter
ConnectionClose(maxCloses) ==
    /\ pc = "running"
    /\ closes < maxCloses
    /\ closes' = closes + 1
    /\ \E statusCode \in {LoggedOut, RateLimited, NoStatus}, isConflict \in BOOLEAN :
           CloseHandler(statusCode, isConflict)
    /\ UNCHANGED <<pc, exitVia, listenersOn, sockEnded, sigReceived>>
    /\ UNCHANGED <<exitTimers, restartLog, erased, nextId, opens>>
    /\ UNCHANGED queueVars

\* clearStateFunc() settles (resolved, or thrown and caught); contacts = {};
\* setTimeout(() => requestRestartAndExit('logged_out_401_cleared', 200), 10000)
EraseSettled ==
    /\ pc = "running"
    /\ erasing > 0
    /\ \E threw \in BOOLEAN :
        /\ erasing' = erasing - 1
        /\ erased' = erased + 1
        /\ timers' = [timers EXCEPT ![LogoutDelay] = @ + 1]
    /\ UNCHANGED <<lifeVars, exitTimers, restartLog, isConnected, nextId, opens, closes>>
    /\ UNCHANGED queueVars

\* a restart timer expires: requestRestartAndExit(reason, 200) writes the
\* restart_requested event and arms the exit timer
RestartTimer ==
    /\ pc = "running"
    /\ \E d \in Delays :
        /\ timers[d] > 0
        /\ timers' = [timers EXCEPT ![d] = @ - 1]
        /\ restartLog' = Append(restartLog, ReasonOf(d))
    /\ exitTimers' = exitTimers + 1
    /\ UNCHANGED <<lifeVars, erasing, erased, isConnected, nextId, opens, closes>>
    /\ UNCHANGED queueVars

\* setTimeout(() => process.exit(0), delay) expires
ExitTimer ==
    /\ pc = "running"
    /\ exitTimers > 0
    /\ pc' = "exited"
    /\ exitVia' = "restart"
    /\ UNCHANGED <<connectCalls, listenersOn, sockEnded, sigReceived>>
    /\ UNCHANGED <<timerVars, queueVars, isConnected, nextId, opens, closes>>

\* a signal handler that ends the socket but does not exit
ShutdownWithoutExit ==
    /\ sigReceived' = TRUE
    /\ sockEnded' = TRUE
    /\ CloseHandler(NoStatus, FALSE)
    /\ UNCHANGED <<pc, exitVia>>
\* SIGINT / SIGTERM: if (sock) sock.end(); process.exit(0).  sock.end() may
\* deliver the close callback synchronously, before process.exit runs.
Shutdown ==
    /\ sigReceived' = TRUE
    /\ pc' = "exited"
    /\ exitVia' = "signal"
    /\ IF pc = "running"
       THEN /\ sockEnded' = TRUE
            /\ \/ CloseHandler(NoStatus, FALSE)
               \/ UNCHANGED <<isConnected, timers, connectCalls, erasing>>
       ELSE UNCHANGED <<sockEnded, isConnected, timers, connectCalls, erasing>>

Signal ==
    /\ pc \in {"boot", "running"}
    /\ ~sigReceived
    /\ Shutdown
    /\ UNCHANGED listenersOn
    /\ UNCHANGED <<exitTimers, restartLog, erased, nextId, opens, closes>>
    /\ UNCHANGED queueVars

\* ------------------------------------------ contact directory (Node gateway)

\* Addresses are kept as their user and server parts; id.includes(...) and
\* id.endsWith(...) become tests of those parts.
AddrPerson == [user |-> "911", server |-> "s.whatsapp.net"]
AddrGroup == [user |-> "120", server |-> "g.us"]
AddrStatus == [user |-> "status", server |-> "broadcast"]

DirAddresses == {AddrPerson, AddrGroup, AddrStatus}

\* c.id.includes('broadcast')
IncludesBroadcast(a) == a.server = "broadcast"

\* A field of an incoming partial record: the key is absent, or it is present
\* with an empty value (undefined, null, ''), or it carries a name.
FieldIn == {"absent", "nil", "A", "B"}

Partials == [id : DirAddresses, name : FieldIn, notify : FieldIn]

Truthy(v) == v \notin {"absent", "nil"}

MissingContact == [present |-> FALSE, name |-> "nil", notify |-> "nil"]

EmptyDir == [a \in DirAddresses |-> MissingContact]

\* one field of { ...existing, ...incoming }: an own key of incoming wins,
\* whatever its value
SpreadField(old, in) == IF in = "absent" THEN old ELSE in

\* a spread that keeps a replaced name as the alternate name
SpreadDemoting(existing, c) ==
    [present |-> TRUE,
     name    |-> SpreadField(existing.name, c.name),
     notify  |-> IF c.name \notin {"absent", existing.name} /\ existing.name # "nil"
                 THEN existing.name
                 ELSE SpreadField(existing.notify, c.notify)]
\* { ...contacts[c.id], ...c }
Spread(existing, c) ==
    [present |-> TRUE,
     name    |-> SpreadField(existing.name, c.name),
     notify  |-> SpreadField(existing.notify, c.notify)]

\* contacts.upsert, and the contacts of messaging-history.set: one record
UpsertMerge(dir, c) ==
    IF IncludesBroadcast(c.id)
    THEN dir
    ELSE [dir EXCEPT ![c.id] = Spread(dir[c.id], c)]

\* contacts.update: one record.  The else branch spreads only ...rest, which
\* holds neither name nor notify.  notify stands for pushName too.
UpdateMerge(dir, u) ==
    IF IncludesBroadcast(u.id)
    THEN dir
    ELSE IF dir[u.id].present
    THEN LET hasName == Truthy(u.name) \/ Truthy(u.notify) IN
         IF ~Truthy(dir[u.id].name) \/ hasName
         THEN [dir EXCEPT ![u.id] = Spread(dir[u.id], u)]
         ELSE dir
    ELSE [dir EXCEPT ![u.id] = Spread(MissingContact, u)]

\* messages.upsert (notify): the pushName sighting of one live message
LiveMerge(dir, jid, pushName) ==
    IF Truthy(pushName) /\ ~IncludesBroadcast(jid)
       /\ (~dir[jid].present \/ ~Truthy(dir[jid].name))
    THEN [dir EXCEPT ![jid] = [present |-> TRUE, name |-> @.name, notify |-> pushName]]
    ELSE dir

\* sendContacts: the ids of the `contacts` event it writes.  Kept are the ids
\* that hold none of 'status@', 'broadcast', 'newsletter' and end in
\* '@s.whatsapp.net' or '@lid'.
Cleaned(dir) ==
    {a \in DOMAIN dir :
        /\ dir[a].present
        /\ ~(a.user = "status" \/ a.server = "broadcast" \/ a.server = "newsletter")
        /\ a.server \in {"s.whatsapp.net", "lid"}}

\* a debounce that arms a new timer and leaves the pending one running
DebounceWithoutClear(pending) == pending + 1
\* debouncedSendContacts: clearTimeout of the pending timer, then one setTimeout
DebouncedSendContacts(pending) == 1

DirInit ==
    /\ contacts = EmptyDir
    /\ contactsTimeout = 0
    /\ wroteContacts = FALSE
    /\ snapshot = {}
    /\ windowMerges = 0
    /\ windowFires = 0

\* A debounce window opens when debouncedSendContacts() finds no timer pending
\* and lasts until no timer is pending again.  A merge handler has run:
\* `arms` tells whether it called debouncedSendContacts().
MergeLands(arms) ==
    /\ contactsTimeout > 0 => windowMerges < MaxWindowMerges
    /\ contactsTimeout' = IF arms THEN DebouncedSendContacts(contactsTimeout) ELSE contactsTimeout
    /\ windowMerges' = IF contactsTimeout > 0 THEN windowMerges + 1
                       ELSE IF arms THEN 1 ELSE windowMerges
    /\ windowFires' = IF arms /\ contactsTimeout = 0 THEN 0 ELSE windowFires
    /\ wroteContacts' = FALSE
    /\ UNCHANGED snapshot

\* sock.ev.on('contacts.upsert'): merge, then debouncedSendContacts() if connected
ContactsUpsert ==
    /\ \E c \in Partials : contacts' = UpsertMerge(contacts, c)
    /\ MergeLands(isConnected)
    /\ UNCHANGED isConnected

\* sock.ev.on('contacts.update')
ContactsUpdate ==
    /\ \E u \in Partials : contacts' = UpdateMerge(contacts, u)
    /\ MergeLands(FALSE)
    /\ UNCHANGED isConnected

\* sock.ev.on('messaging-history.set'): merge, then debouncedSendContacts()
HistorySet ==
    /\ \E c \in Partials : contacts' = UpsertMerge(contacts, c)
    /\ MergeLands(TRUE)
    /\ UNCHANGED isConnected

\* sock.ev.on('messages.upsert') with type 'notify': one recent message
LiveMessage ==
    /\ \E jid \in DirAddresses, pushName \in {"nil", "A", "B"} :
           contacts' = LiveMerge(contacts, jid, pushName)
    /\ MergeLands(FALSE)
    /\ UNCHANGED isConnected

\* the directory side of the open branch: isConnected = true; debouncedSendContacts()
DirOpen ==
    /\ ~isConnected
    /\ isConnected' = TRUE
    /\ contactsTimeout' = DebouncedSendContacts(contactsTimeout)
    /\ windowMerges' = IF contactsTimeout = 0 THEN 0 ELSE windowMerges
    /\ windowFires' = IF contactsTimeout = 0 THEN 0 ELSE windowFires
    /\ wroteContacts' = FALSE
    /\ UNCHANGED <<contacts, snapshot>>

\* the directory side of the close branch; a logout also runs contacts = {}
DirClose ==
    /\ isConnected
    /\ isConnected' = FALSE
    /\ \E loggedOut \in BOOLEAN :
           contacts' = IF loggedOut THEN EmptyDir ELSE contacts
    /\ wroteContacts' = FALSE
    /\ UNCHANGED <<contactsTimeout, snapshot, windowMerges, windowFires>>

\* a 5000 ms debounce timer expires: sendContacts()
DebounceFire ==
    /\ contactsTimeout > 0
    /\ contactsTimeout' = contactsTimeout - 1
    /\ snapshot' = Cleaned(contacts)
    /\ wroteContacts' = TRUE
    /\ windowFires' = windowFires + 1
    /\ UNCHANGED <<contacts, isConnected, windowMerges>>

\* executeCommand of a get_contacts command on a ready session: sendContacts()
GetContacts ==
    /\ isConnected
    /\ snapshot' = Cleaned(contacts)
    /\ wroteContacts' = TRUE
    /\ UNCHANGED <<contacts, isConnected, contactsTimeout, windowMerges, windowFires>>

DirNext ==
    \/ ContactsUpsert /\ UNCHANGED besideDir
    \/ ContactsUpdate /\ UNCHANGED besideDir
    \/ HistorySet /\ UNCHANGED besideDir
    \/ LiveMessage /\ UNCHANGED besideDir
    \/ DirOpen /\ UNCHANGED besideDir
    \/ DirClose /\ UNCHANGED besideDir
    \/ DebounceFire /\ UNCHANGED besideDir
    \/ GetContacts /\ UNCHANGED besideDir

\* ------------------------------------------------ Go gateway: commands

\* cmd.Type; "react" stands for delete_message too (handleReaction and
\* handleDeleteMessage are each parseJID and one client.SendMessage)
GoCmdTypes == {"send_message", "react", "get_contacts", "bogus"}

GoNetworkTypes == {"send_message", "react"}

GoInit ==
    /\ goPc = "running"
    /\ goConnected = FALSE
    /\ goNextId = 1
    /\ goSpawned = {}
    /\ goRunning = {}
    /\ goAcks = [i \in CmdIds |-> 0]
    /\ goErrs = [i \in CmdIds |-> 0]

\* processCommands: one well-formed line; go executeCommand(cmd)
GoStdin ==
    /\ goPc = "running"
    /\ goNextId <= MaxCmds
    /\ \E t \in GoCmdTypes : goSpawned' = goSpawned \cup {[id |-> goNextId, type |-> t]}
    /\ goNextId' = goNextId + 1
    /\ UNCHANGED <<goPc, goConnected, goRunning, goAcks, goErrs>>

\* a spawned goroutine is scheduled and runs executeCommand up to its
\* blocking client.SendMessage, or to its end
GoExecBegin ==
    /\ goPc = "running"
    /\ \E c \in goSpawned :
        /\ goSpawned' = goSpawned \ {c}
        /\ IF ~goConnected
           THEN /\ goErrs' = [goErrs EXCEPT ![c.id] = @ + 1]
                /\ UNCHANGED <<goAcks, goRunning>>
           ELSE IF c.type \in GoNetworkTypes
           THEN \E jidParses \in BOOLEAN :
                  IF jidParses
                  THEN /\ goRunning' = goRunning \cup {c}
                       /\ UNCHANGED <<goAcks, goErrs>>
                  ELSE /\ goErrs' = [goErrs EXCEPT ![c.id] = @ + 1]
                       /\ UNCHANGED <<goAcks, goRunning>>
           ELSE IF c.type = "get_contacts"
           THEN /\ goAcks' = [goAcks EXCEPT ![c.id] = @ + 1]
                /\ UNCHANGED <<goErrs, goRunning>>
           ELSE /\ goErrs' = [goErrs EXCEPT ![c.id] = @ + 1]
                /\ UNCHANGED <<goAcks, goRunning>>
    /\ UNCHANGED <<goPc, goConnected, goNextId>>

\* client.SendMessage returns in one goroutine: ack, or error
GoExecDone ==
    /\ goPc = "running"
    /\ \E c \in goRunning, sendFailed \in BOOLEAN :
        /\ goRunning' = goRunning \ {c}
        /\ IF sendFailed
           THEN goErrs' = [goErrs EXCEPT ![c.id] = @ + 1] /\ UNCHANGED goAcks
           ELSE goAcks' = [goAcks EXCEPT ![c.id] = @ + 1] /\ UNCHANGED goErrs
    /\ UNCHANGED <<goPc, goConnected, goNextId, goSpawned>>

\* events.Connected / events.Disconnected: the client (EnableAutoReconnect)
\* gains or loses its connection
GoConnectionChange ==
    /\ goPc = "running"
    /\ goConnected' = ~goConnected
    /\ UNCHANGED <<goPc, goNextId, goSpawned, goRunning, goAcks, goErrs>>

\* events.LoggedOut (os.Exit(0)), or SIGINT/SIGTERM in main
GoExit ==
    /\ goPc = "running"
    /\ goPc' = "exited"
    /\ UNCHANGED <<goConnected, goNextId, goSpawned, goRunning, goAcks, goErrs>>

GoNext ==
    \/ GoStdin /\ UNCHANGED besideGo
    \/ GoExecBegin /\ UNCHANGED besideGo
    \/ GoExecDone /\ UNCHANGED besideGo
    \/ GoConnectionChange /\ UNCHANGED besideGo
    \/ GoExit /\ UNCHANGED besideGo

\* ---------------------------------------- Go gateway: contact directory

GoAddresses == {AddrPerson, AddrGroup, AddrStatus}

GoNames == {"", "A", "B"}

GoMissing == [present |-> FALSE, Name |-> "", Notify |-> "", PushName |-> ""]

\* evt.Action of an events.Contact: nil, or its FullName and FirstName
NilAction == [isNil |-> TRUE, FullName |-> "", FirstName |-> ""]

ContactActions == {NilAction} \cup [isNil : {FALSE}, FullName : GoNames, FirstName : GoNames]

\* name := ""; if evt.Action != nil { FullName, or FirstName when that is empty }
ContactEventName(action) ==
    IF action.isNil THEN ""
    ELSE IF action.FullName # "" THEN action.FullName ELSE action.FirstName

\* handleContactEvent: contacts[jid] = ContactInfo{ID: jid, Name: name}
GoContactMerge(dir, jid, action) ==
    [dir EXCEPT ![jid] = [present |-> TRUE, Name |-> ContactEventName(action),
                          Notify |-> "", PushName |-> ""]]

\* handleHistorySync, one conversation: skipped for a broadcast or status
\* address and for an empty display name
GoHistoryMerge(dir, jid, displayName) ==
    IF jid.server = "broadcast" \/ jid.user = "status" \/ displayName = ""
    THEN dir
    ELSE [dir EXCEPT ![jid] = [present |-> TRUE, Name |-> displayName,
                               Notify |-> "", PushName |-> ""]]

\* handleMessage: the contact cache update
GoMessageMerge(dir, chat, pushName) ==
    IF chat.server \in {"broadcast", "status"}
    THEN dir
    ELSE IF pushName # "" /\ chat.server # "g.us"
            /\ (~dir[chat].present \/ dir[chat].Name = "")
    THEN [dir EXCEPT ![chat] = [present |-> TRUE, Name |-> "",
                                Notify |-> pushName, PushName |-> pushName]]
    ELSE dir

\* sendContacts: the ids of the `contacts` event it emits.  Skipped are ids
\* holding 'status@', 'broadcast' or 'newsletter'; accepted are the suffixes
\* @s.whatsapp.net, @g.us and @lid.
GoCleaned(dir) ==
    {a \in DOMAIN dir :
        /\ dir[a].present
        /\ ~(a.user = "status" \/ a.server = "broadcast" \/ a.server = "newsletter")
        /\ a.server \in {"s.whatsapp.net", "g.us", "lid"}}

GoDirInit ==
    /\ goContacts = [a \in GoAddresses |-> GoMissing]
    /\ goSendTimers = 0
    /\ goSnapshot = {}

GoHandleContactEvent ==
    /\ \E jid \in GoAddresses, action \in ContactActions :
           goContacts' = GoContactMerge(goContacts, jid, action)
    /\ UNCHANGED <<goSendTimers, goSnapshot>>

\* handleHistorySync: one conversation, then the delayed sendContacts()
GoHandleHistorySync ==
    /\ goSendTimers < MaxGoSendTimers
    /\ \E jid \in GoAddresses, displayName \in GoNames :
           goContacts' = GoHistoryMerge(goContacts, jid, displayName)
    /\ goSendTimers' = goSendTimers + 1
    /\ UNCHANGED goSnapshot

GoHandleMessage ==
    /\ \E chat \in GoAddresses, pushName \in GoNames :
           goContacts' = GoMessageMerge(goContacts, chat, pushName)
    /\ UNCHANGED <<goSendTimers, goSnapshot>>

\* events.Connected: the delayed sendContacts() is spawned
GoOnConnected ==
    /\ goSendTimers < MaxGoSendTimers
    /\ goSendTimers' = goSendTimers + 1
    /\ UNCHANGED <<goContacts, goSnapshot>>

\* a delayed sendContacts() runs
GoSendContacts ==
    /\ goSendTimers > 0
    /\ goSendTimers' = goSendTimers - 1
    /\ goSnapshot' = GoCleaned(goContacts)
    /\ UNCHANGED goContacts

GoDirNext ==
    \/ GoHandleContactEvent /\ UNCHANGED besideGoDir
    \/ GoHandleHistorySync /\ UNCHANGED besideGoDir
    \/ GoHandleMessage /\ UNCHANGED besideGoDir
    \/ GoOnConnected /\ UNCHANGED besideGoDir
    \/ GoSendContacts /\ UNCHANGED besideGoDir

\* ------------------------------------------------------ merge functions

\* The records the merges are tried on: one storable address and one that
\* every channel drops.
MergeAddresses == {AddrPerson, AddrStatus}

\* one record arriving through one channel; a live message is its address and
\* its pushName
NodeEvents ==
    [channel : {"contacts.upsert", "contacts.update", "messaging-history.set"},
     rec : [id : MergeAddresses, name : FieldIn, notify : FieldIn]]
    \cup [channel : {"messages.upsert"},
          rec : [id : MergeAddresses, name : {"absent"}, notify : {"nil", "A", "B"}]]

\* what the handler of the record's channel does to the directory
ApplyEvent(dir, e) ==
    CASE e.channel = "contacts.upsert"       -> UpsertMerge(dir, e.rec)
      [] e.channel = "messaging-history.set" -> UpsertMerge(dir, e.rec)
      [] e.channel = "contacts.update"       -> UpdateMerge(dir, e.rec)
      [] OTHER                               -> LiveMerge(dir, e.rec.id, e.rec.notify)

\* one event of the Go gateway about one address
GoEvents ==
    [handler : {"handleContactEvent"}, jid : {AddrPerson}, action : ContactActions, name : {""}]
    \cup [handler : {"handleHistorySync", "handleMessage"}, jid : {AddrPerson},
          action : {NilAction}, name : GoNames]

GoApplyEvent(dir, e) ==
    CASE e.handler = "handleContactEvent" -> GoContactMerge(dir, e.jid, e.action)
      [] e.handler = "handleHistorySync"  -> GoHistoryMerge(dir, e.jid, e.name)
      [] OTHER                            -> GoMessageMerge(dir, e.jid, e.name)

MergeInit ==
    /\ mDir = EmptyDir
    /\ mSwapped = EmptyDir
    /\ mAgain = EmptyDir
    /\ gDir = [a \in GoAddresses |-> GoMissing]
    /\ gAgain = [a \in GoAddresses |-> GoMissing]

\* two records reach the Node directory, first e1 then e2
NodeMergePair ==
    /\ \E e1, e2 \in NodeEvents :
        /\ mDir' = ApplyEvent(ApplyEvent(mDir, e1), e2)
        /\ mSwapped' = ApplyEvent(ApplyEvent(mDir, e2), e1)
        /\ mAgain' = ApplyEvent(ApplyEvent(ApplyEvent(mDir, e1), e2), e2)
    /\ UNCHANGED <<gDir, gAgain>>

\* one event reaches the Go directory
GoMergeOne ==
    /\ \E e \in GoEvents :
        /\ gDir' = GoApplyEvent(gDir, e)
        /\ gAgain' = GoApplyEvent(GoApplyEvent(gDir, e), e)
    /\ UNCHANGED <<mDir, mSwapped, mAgain>>

MergeNext ==
    \/ NodeMergePair /\ UNCHANGED besideMerge
    \/ GoMergeOne /\ UNCHANGED besideMerge

\* --------------------------------------------------- credential store

\* The two revisions of useR2AuthState in the repository.
Revisions == {"r2_auth_state.js", "part_001"}

\* object keys under sessions/<sessionName>/
CredsFile == "creds.json"
KeyFile == "pre-key-1.json"
Files == {CredsFile, KeyFile}

Absent == "absent"

\* A credential record: fresh from initAuthCreds() (not registered, no account
\* material), stale (not registered, account material of an interrupted
\* pairing), or registered.
CredsValues == {"fresh", "stale", "registered"}

KeyValues == {"k1", "k2"}

\* what s3Client.send(GetObjectCommand) does: the object, NoSuchKey / 404, or
\* any other failure (network, auth, permission)
GetOutcomes(stored) ==
    (IF stored = Absent THEN {"NoSuchKey"} ELSE {"ok"}) \cup {"failure"}

\* readData: the value, "null", or "threw"
ReadData(rev, stored, s3) ==
    CASE s3 = "ok"        -> stored
      [] s3 = "NoSuchKey" -> "null"
      [] OTHER            -> IF rev = "part_001" THEN "threw" ELSE "null"

\* writeData throws to its caller
WriteDataThrows(rev, s3Failed) == rev = "part_001" /\ s3Failed

\* a saveCreds that returns writeData's promise as it is
SaveCredsCatchesNothing(rev) == FALSE
\* saveCreds attaches .catch to writeData's promise
SaveCredsCatches(rev) == rev = "part_001"

\* keys.set attaches .catch to each writeData task
KeysSetCatches(rev) == rev = "part_001"

\* the promise saveCreds returns to the creds.update listener rejects
SaveCredsRejects(rev, s3Failed) == WriteDataThrows(rev, s3Failed) /\ ~SaveCredsCatches(rev)

\* the promise keys.set returns rejects
KeysSetRejects(rev, s3Failed) == WriteDataThrows(rev, s3Failed) /\ ~KeysSetCatches(rev)

\* a load whose read is not inside try / catch: what readData throws leaves
\* useR2AuthState
LoadCredsUnguarded(rev, stored, s3) ==
    IF ReadData(rev, stored, s3) = "null"
    THEN "fresh"
    ELSE ReadData(rev, stored, s3)
\* let creds = await readData('creds.json') (part_001: inside try / catch);
\* if (!creds) creds = initAuthCreds()
LoadCreds(rev, stored, s3) ==
    IF ReadData(rev, stored, s3) \in {"null", "threw"}
    THEN "fresh"
    ELSE ReadData(rev, stored, s3)

\* keys.get for one id: the entry of the returned map, Absent if it has none.
\* part_001 catches a read that threw and leaves the entry undefined.
KeysGetEntry(rev, stored, s3) ==
    IF ReadData(rev, stored, s3) \in {"null", "threw"}
    THEN Absent
    ELSE ReadData(rev, stored, s3)

\* the adapter's next change of state.creds: pairing gives an unregistered
\* record its account material, then registers it
NextCreds(c) ==
    CASE c = "fresh" -> "stale"
      [] OTHER       -> "registered"

NoRead == [op |-> "none", failure |-> FALSE, got |-> Absent]
NoSave == [op |-> "none", failure |-> FALSE, rejected |-> FALSE, kept |-> TRUE]

AuthInit ==
    /\ revision \in Revisions
    /\ pairingMode \in BOOLEAN
    /\ bucket \in [Files -> {Absent}]
                  \cup {[f \in Files |-> IF f = CredsFile THEN c ELSE k] :
                          c \in {"stale", "registered"}, k \in {Absent, "k1"}}
    /\ creds = "none"
    /\ authPc = "boot"
    /\ sockCreds = "none"
    /\ lastRead = NoRead
    /\ lastSave = NoSave

\* startGateway: const r2Auth = await useR2AuthState(sessionName); state = r2Auth.state
LoadAuthState ==
    /\ authPc = "boot"
    /\ \E s3 \in GetOutcomes(bucket[CredsFile]) :
        /\ creds' = LoadCreds(revision, bucket[CredsFile], s3)
        /\ lastRead' = [op |-> "load", failure |-> s3 = "failure",
                        got |-> IF ReadData(revision, bucket[CredsFile], s3) \in {"null", "threw"}
                                THEN Absent ELSE "value"]
    /\ authPc' = IF creds' = "threw" THEN "crashed" ELSE "loaded"
    /\ UNCHANGED <<revision, pairingMode, bucket, sockCreds, lastSave>>

\* startGateway: fetchLatestBaileysVersion, sock = makeWASocket({ auth: { creds: state.creds, .. } })
MakeSocket ==
    /\ authPc = "loaded"
    /\ authPc' = "socket"
    /\ sockCreds' = creds
    /\ UNCHANGED <<revision, pairingMode, bucket, creds, lastRead, lastSave>>

\* the adapter changes state.creds and emits creds.update; the listener is
\* saveCreds.  A rejection it returns is handled by nobody.
CredsUpdate ==
    /\ authPc = "socket"
    /\ \E s3Failed \in BOOLEAN :
        /\ creds' = NextCreds(creds)
        /\ bucket' = IF s3Failed THEN bucket ELSE [bucket EXCEPT ![CredsFile] = NextCreds(creds)]
        /\ lastSave' = [op |-> "saveCreds", failure |-> s3Failed,
                        rejected |-> SaveCredsRejects(revision, s3Failed),
                        kept |-> creds' = NextCreds(creds)]
        /\ authPc' = IF SaveCredsRejects(revision, s3Failed) THEN "crashed" ELSE authPc
    /\ UNCHANGED <<revision, pairingMode, sockCreds, lastRead>>

\* keys.set({ 'pre-key': { 1: value } }): a value is written, a null value
\* removes the object; removeData swallows its failure
KeysSet ==
    /\ authPc = "socket"
    /\ \E value \in KeyValues \cup {Absent}, s3Failed \in BOOLEAN :
        /\ bucket' = IF s3Failed THEN bucket ELSE [bucket EXCEPT ![KeyFile] = value]
        /\ lastSave' = [op |-> "keys.set", failure |-> s3Failed,
                        rejected |-> value # Absent /\ KeysSetRejects(revision, s3Failed),
                        kept |-> TRUE]
        /\ authPc' = IF value # Absent /\ KeysSetRejects(revision, s3Failed)
                     THEN "crashed" ELSE authPc
    /\ UNCHANGED <<revision, pairingMode, creds, sockCreds, lastRead>>

\* keys.get('pre-key', ['1'])
KeysGet ==
    /\ authPc = "socket"
    /\ \E s3 \in GetOutcomes(bucket[KeyFile]) :
        lastRead' = [op |-> "keys.get", failure |-> s3 = "failure",
                     got |-> IF KeysGetEntry(revision, bucket[KeyFile], s3) = Absent
                             THEN Absent ELSE "value"]
    /\ UNCHANGED <<revision, pairingMode, bucket, creds, authPc, sockCreds, lastSave>>

AuthNext ==
    \/ LoadAuthState /\ UNCHANGED besideAuth
    \/ MakeSocket /\ UNCHANGED besideAuth
    \/ CredsUpdate /\ UNCHANGED besideAuth
    \/ KeysSet /\ UNCHANGED besideAuth
    \/ KeysGet /\ UNCHANGED besideAuth

\* ------------------------------------------- wiping a session's credentials

Backends == {"r2", "local"}

NotExited == -1

\* how many keys the session holds when the utility starts
KeyCounts == {0, 1, BatchLimit, BatchLimit + 1, MaxKeys}

Min(a, b) == IF a < b THEN a ELSE b
Max(a, b) == IF a < b THEN b ELSE a

\* keys one delete request carries: r2_auth_state.js sends one
\* DeleteObjectCommand per listed item, part_001 one DeleteObjectsCommand per
\* slice of the page
DeleteSize(rev, left) == IF rev = "part_001" THEN Min(left, BatchLimit) ELSE 1

\* a clearState that lists a single page
ListOnlyOnce(truncated) == FALSE
\* while (isTruncated)
LoopWhileTruncated(truncated) == truncated

\* clearState's catch: part_001 logs and re-throws, r2_auth_state.js logs
ClearStateThrows(rev) == rev = "part_001"

\* the utility's process.exit: 0 after the try block, 1 from its catch
UtilityExit(threw) == IF threw THEN 1 ELSE 0

ClearInit ==
    /\ backend \in Backends
    /\ clearPc = "utility"
    /\ exitCode = NotExited
    /\ remaining \in KeyCounts
    /\ pageLeft = 0
    /\ isTruncated = TRUE
    /\ clearFailed = FALSE
    /\ listRequests = 0
    /\ perKeyDeletes = 0
    /\ maxBatch = 0

\* the utility is not running
ClearIdle ==
    /\ ClearInit
    /\ backend = "local"
    /\ remaining = 0

\* clearState settles and the utility's async function exits the process
ClearSettles(failed) ==
    /\ clearFailed' = (clearFailed \/ failed)
    /\ clearPc' = IF failed /\ ClearStateThrows(revision) THEN "threw" ELSE "resolved"
    /\ exitCode' = UtilityExit(failed /\ ClearStateThrows(revision))

\* the end of one pass of the while loop
ClearLoops(truncated) ==
    IF LoopWhileTruncated(truncated)
    THEN /\ clearPc' = "list"
         /\ UNCHANGED <<exitCode, clearFailed>>
    ELSE ClearSettles(FALSE)

\* if (isClearStateCmd): the R2 branch awaits useR2AuthState, the local branch
\* is fs.existsSync / fs.rmSync and process.exit in the same turn
ClearStateCmd ==
    /\ clearPc = "utility"
    /\ IF backend = "r2"
       THEN /\ clearPc' = "load"
            /\ UNCHANGED <<exitCode, remaining, clearFailed>>
       ELSE \E ok \in BOOLEAN :
            /\ remaining' = IF ok THEN 0 ELSE remaining
            /\ clearFailed' = ~ok
            /\ clearPc' = "wiped"
            /\ exitCode' = UtilityExit(~ok)
    /\ UNCHANGED <<backend, pageLeft, isTruncated, listRequests, perKeyDeletes, maxBatch>>

\* useR2AuthState resolves (neither revision lets its first read throw) and
\* auth.clearState() runs up to its first listing request
ClearStateBegin ==
    /\ clearPc = "load"
    /\ clearPc' = "list"
    /\ isTruncated' = TRUE
    /\ UNCHANGED <<backend, exitCode, remaining, pageLeft, clearFailed,
                   listRequests, perKeyDeletes, maxBatch>>

\* await s3Client.send(new ListObjectsV2Command(..)) settles
ListPage ==
    /\ clearPc = "list"
    /\ listRequests' = listRequests + 1
    /\ \E ok \in BOOLEAN :
        IF ok
        THEN /\ pageLeft' = Min(remaining, ListPageMax)
             /\ isTruncated' = (remaining > ListPageMax)
             /\ IF pageLeft' > 0
                THEN /\ clearPc' = "delete"
                     /\ UNCHANGED <<exitCode, clearFailed>>
                ELSE ClearLoops(isTruncated')
        ELSE /\ ClearSettles(TRUE)
             /\ UNCHANGED <<pageLeft, isTruncated>>
    /\ UNCHANGED <<backend, remaining, perKeyDeletes, maxBatch>>

\* one awaited delete request settles
DeleteRequest ==
    /\ clearPc = "delete"
    /\ maxBatch' = Max(maxBatch, DeleteSize(revision, pageLeft))
    /\ perKeyDeletes' = IF revision = "part_001" THEN perKeyDeletes ELSE perKeyDeletes + 1
    /\ \E ok \in BOOLEAN :
        IF ok
        THEN /\ remaining' = remaining - DeleteSize(revision, pageLeft)
             /\ pageLeft' = pageLeft - DeleteSize(revision, pageLeft)
             /\ IF pageLeft' > 0
                THEN /\ clearPc' = "delete"
                     /\ UNCHANGED <<exitCode, clearFailed>>
                ELSE ClearLoops(isTruncated)
        ELSE /\ ClearSettles(TRUE)
             /\ UNCHANGED <<remaining, pageLeft>>
    /\ UNCHANGED <<backend, isTruncated, listRequests>>

ClearNext ==
    \/ ClearStateCmd /\ UNCHANGED besideClear
    \/ ClearStateBegin /\ UNCHANGED besideClear
    \/ ListPage /\ UNCHANGED besideClear
    \/ DeleteRequest /\ UNCHANGED besideClear

\* ------------------------------------------------ keys.set and pLimit

\* requests keys.set has sent when it reaches its await: part_001 pushes
\* thunks and pLimit starts Math.min(limit, tasks.length) workers, each running
\* up to its first awaited task; r2_auth_state.js pushes the promises of
\* writeData / removeData calls it has already made
StartedAtCall(rev, n) == IF rev = "part_001" THEN Min(KeysSetLimit, n) ELSE n

\* positions of the tasks array
TaskIds == 0..MaxTasks

\* a worker that increments before it reads: const current = ++index
ClaimedAfterIncrement(i) == i + 1
\* const current = index++
Claimed(i) == i

\* how often each task was invoked once keys.set has reached its await: the
\* pLimit workers claim positions one after the other, r2_auth_state.js has
\* called writeData / removeData once for every pair
StartsAtCall(rev, n) ==
    [t \in TaskIds |->
        IF rev = "part_001"
        THEN Cardinality({w \in 0..(Min(KeysSetLimit, n) - 1) : Claimed(w) = t})
        ELSE IF t < n THEN 1 ELSE 0]

LimitInit ==
    /\ limitPc = "idle"
    /\ tasksLen = 0
    /\ index = 0
    /\ inFlight = 0
    /\ started = [t \in TaskIds |-> 0]
    /\ settled = 0

\* keys.set(data) with n (category, id) pairs, up to its await
KeysSetCall ==
    /\ limitPc # "running"
    /\ \E n \in 0..MaxTasks :
        /\ tasksLen' = n
        /\ index' = StartedAtCall(revision, n)
        /\ inFlight' = StartedAtCall(revision, n)
        /\ started' = StartsAtCall(revision, n)
        /\ limitPc' = IF n = 0 THEN "resolved" ELSE "running"
    /\ settled' = 0

\* one request settles, in success or in a failure its task catches; a pLimit
\* worker resumes: while (index < tasks.length) { current = index++; .. }
RequestSettles ==
    /\ limitPc = "running"
    /\ inFlight > 0
    /\ settled' = settled + 1
    /\ IF index < tasksLen
       THEN /\ index' = index + 1
            /\ started' = [started EXCEPT ![Claimed(index)] = @ + 1]
            /\ UNCHANGED inFlight
       ELSE /\ inFlight' = inFlight - 1
            /\ UNCHANGED <<index, started>>
    /\ limitPc' = IF inFlight' = 0 THEN "resolved" ELSE "running"
    /\ UNCHANGED tasksLen

LimitNext ==
    \/ KeysSetCall /\ UNCHANGED besideLimit
    \/ RequestSettles /\ UNCHANGED besideLimit

\* ------------------------------------------------ keys.set and keys.get

\* the (category, id) pairs of the session
KeyNames == {<<"pre-key", "1">>, <<"app-state-sync-key", "AAAA">>}

\* const file = `${category}-${id}.json`
FileOf(k) == k[1] \o "-" \o k[2] \o ".json"

KeyFiles == {FileOf(k) : k \in KeyNames}

\* entries of keys.set's argument that are no value: a null, and a
\* (category, id) the argument does not name
Null == [kind |-> "null", fields |-> ""]
Unnamed == [kind |-> "unnamed", fields |-> ""]

\* The values the adapter hands to keys.set: an app-state-sync-key is a
\* protobuf message object, every other key a plain object.
ValuesOf(k) ==
    {[kind |-> IF k[1] = "app-state-sync-key" THEN "proto" ELSE "plain", fields |-> f] :
        f \in KeyValues}

\* Body: JSON.stringify(data, BufferJSON.replacer): the text of the fields,
\* not the class
ToJson(value) == value.fields

\* JSON.parse(str, BufferJSON.reviver): a plain object
FromJson(body) == [kind |-> "plain", fields |-> body]

\* proto.Message.AppStateSyncKeyData.fromObject(value)
FromObject(value) == [kind |-> "proto", fields |-> value.fields]

\* a keys.set that skips the entries whose value is null
StoredSkippingNull(old, value) == IF value = Null THEN old ELSE ToJson(value)
\* if (value) writeData(value, file) else removeData(file)
StoredAfter(old, value) == IF value = Null THEN Absent ELSE ToJson(value)

\* the entry keys.get returns for one id whose read gave `read`
Entry(k, read) ==
    IF read \in {"null", "threw"} THEN Null
    ELSE IF k[1] = "app-state-sync-key" THEN FromObject(FromJson(read))
    ELSE FromJson(read)

NoGet == [ran |-> FALSE, data |-> [k \in KeyNames |-> Null], failed |-> {}]

KeysInit ==
    /\ keyStore = [f \in KeyFiles |-> Absent]
    /\ setPc = "idle"
    /\ setData = [k \in KeyNames |-> Unnamed]
    /\ setPending = {}
    /\ setFailed = {}
    /\ before = keyStore
    /\ got = NoGet

\* keys.set(data) up to its await: one request per named (category, id)
SetKeys ==
    /\ setPc # "running"
    /\ \E data \in [KeyNames -> {Unnamed, Null} \cup UNION {ValuesOf(k) : k \in KeyNames}] :
        /\ \A k \in KeyNames : data[k] \in {Unnamed, Null} \cup ValuesOf(k)
        /\ setData' = data
        /\ setPending' = {k \in KeyNames : data[k] # Unnamed}
        /\ setPc' = IF setPending' = {} THEN "resolved" ELSE "running"
    /\ setFailed' = {}
    /\ before' = keyStore
    /\ got' = NoGet
    /\ UNCHANGED keyStore

\* one PutObject / DeleteObject request of the call settles; a failure is
\* logged by writeData, by the task's .catch or by removeData
SetRequestSettles ==
    /\ setPc = "running"
    /\ \E k \in setPending, s3Failed \in BOOLEAN :
        /\ keyStore' = IF s3Failed THEN keyStore
                       ELSE [keyStore EXCEPT ![FileOf(k)] = StoredAfter(@, setData[k])]
        /\ setFailed' = IF s3Failed THEN setFailed \cup {k} ELSE setFailed
        /\ setPending' = setPending \ {k}
        /\ setPc' = IF setPending' = {} THEN "resolved" ELSE "running"
    /\ UNCHANGED <<setData, before, got>>

\* keys.get(type, ids) for every id of every category, once no keys.set is
\* running: the map its reads built
GetKeys ==
    /\ setPc # "running"
    /\ \E s3 \in [KeyNames -> {"ok", "NoSuchKey", "failure"}] :
        /\ \A k \in KeyNames : s3[k] \in GetOutcomes(keyStore[FileOf(k)])
        /\ got' = [ran |-> TRUE,
                   data |-> [k \in KeyNames |->
                               Entry(k, ReadData(revision, keyStore[FileOf(k)], s3[k]))],
                   failed |-> {k \in KeyNames : s3[k] = "failure"}]
    /\ UNCHANGED <<keyStore, setPc, setData, setPending, setFailed, before>>

KeysNext ==
    \/ SetKeys /\ UNCHANGED besideKeys
    \/ SetRequestSettles /\ UNCHANGED besideKeys
    \/ GetKeys /\ UNCHANGED besideKeys

\* ------------------------------------------------------- media files

Runs == {1, 2}

MediaMessageTypes == {"imageMessage", "videoMessage", "audioMessage", "stickerMessage"}

\* mediaTypeMap[messageType.replace('Message', '')] || 'bin'
ExtensionOf(messageType) ==
    CASE messageType = "audioMessage"   -> "ogg"
      [] messageType = "videoMessage"   -> "mp4"
      [] messageType = "imageMessage"   -> "jpg"
      [] messageType = "stickerMessage" -> "webp"
      [] OTHER                          -> "bin"

NoPath == "null"

\* findExistingMedia: files.find(f => f.startsWith(hash)), the first match in
\* directory order; every file of mediaFiles starts with the digest
FindExistingMedia(files) == IF files = {} THEN {NoPath} ELSE files

MediaInit ==
    /\ mediaPc = [h \in Runs |-> "idle"]
    /\ mediaExt = [h \in Runs |-> "bin"]
    /\ mediaFiles = {}
    /\ returned = [h \in Runs |-> NoPath]

\* messages.upsert (notify) with one recent media message: the handler runs
\* up to await downloadMediaMessage(..)
MediaUpsert(h) ==
    /\ mediaPc[h] = "idle"
    /\ \E t \in MediaMessageTypes : mediaExt' = [mediaExt EXCEPT ![h] = ExtensionOf(t)]
    /\ mediaPc' = [mediaPc EXCEPT ![h] = "download"]
    /\ UNCHANGED <<mediaFiles, returned>>

\* the download settles: on a failure the catch returns a null path; else the
\* digest is looked up and either the file found is returned or writeFile of
\* <digest>.<extension> begins
DownloadDone(h) ==
    /\ mediaPc[h] = "download"
    /\ \E ok \in BOOLEAN, found \in FindExistingMedia(mediaFiles) :
        IF ok /\ found = NoPath
        THEN /\ mediaPc' = [mediaPc EXCEPT ![h] = "write"]
             /\ UNCHANGED returned
        ELSE /\ mediaPc' = [mediaPc EXCEPT ![h] = "done"]
             /\ returned' = [returned EXCEPT ![h] = IF ok THEN found ELSE NoPath]
    /\ UNCHANGED <<mediaExt, mediaFiles>>

\* await writeFile(mediaPath, buffer) settles: the file is there and its path
\* returned, or the catch returns a null path
WriteDone(h) ==
    /\ mediaPc[h] = "write"
    /\ \E ok \in BOOLEAN :
        /\ mediaFiles' = IF ok THEN mediaFiles \cup {mediaExt[h]} ELSE mediaFiles
        /\ returned' = [returned EXCEPT ![h] = IF ok THEN mediaExt[h] ELSE NoPath]
    /\ mediaPc' = [mediaPc EXCEPT ![h] = "done"]
    /\ UNCHANGED mediaExt

MediaNext ==
    \/ \E h \in Runs : MediaUpsert(h) /\ UNCHANGED besideMedia
    \/ \E h \in Runs : DownloadDone(h) /\ UNCHANGED besideMedia
    \/ \E h \in Runs : WriteDone(h) /\ UNCHANGED besideMedia

\* ------------------------------------------------------ reading stdin

Readers == {"node", "go"}

\* A line is the JSON text of a command, text that is no JSON, white space,
\* or text that is no JSON and longer than the Go scanner's buffer
\* (scanner.Buffer(make([]byte, 1024*1024), 1024*1024)).
LineKinds == {"valid", "malformed", "blank", "oversized"}

\* A line reaches the reader as two pieces of text and its newline; a chunk
\* of the stream ends after any piece.
PiecesPerLine == 3
Newline == 3
Piece(n) == [line |-> ((n - 1) \div PiecesPerLine) + 1,
             part |-> ((n - 1) % PiecesPerLine) + 1]

\* JSON.parse(line.trim()) / json.Unmarshal returns a command: the text is
\* the whole of a line that is the JSON text of a command
Parses(line, kinds) ==
    /\ Len(line) = PiecesPerLine - 1
    /\ \A j \in 1..Len(line) : line[j] = [line |-> line[1].line, part |-> j]
    /\ kinds[line[1].line] = "valid"

\* !line.trim() / line == ""
IsBlank(line, kinds) == \A j \in 1..Len(line) : kinds[line[j].line] = "blank"

\* bufio.Scanner gives up on a line that does not fit its buffer; the Node
\* handler has no limit
ScannerStops(who, line, kinds) ==
    who = "go" /\ \E j \in 1..Len(line) : kinds[line[j].line] = "oversized"

\* one complete line: what the loop body does with it
HandleLine(who, st, line, kinds) ==
    IF ~st.alive THEN st
    ELSE IF ScannerStops(who, line, kinds) THEN [st EXCEPT !.alive = FALSE]
    ELSE IF IsBlank(line, kinds) THEN st
    ELSE IF Parses(line, kinds) THEN [st EXCEPT !.enq = Append(@, line[1].line)]
    ELSE st

\* buffer += data; lines = buffer.split('\n'); buffer = lines.pop(); for
\* (const line of lines) ..  -- the pieces from..to of the stream
RECURSIVE HandleChunk(_, _, _, _, _)
HandleChunk(who, st, from, to, kinds) ==
    IF from > to THEN st
    ELSE IF Piece(from).part = Newline
    THEN HandleChunk(who, [HandleLine(who, st, st.buf, kinds) EXCEPT !.buf = <<>>],
                     from + 1, to, kinds)
    ELSE HandleChunk(who, [st EXCEPT !.buf = Append(@, Piece(from))],
                     from + 1, to, kinds)

StdinInit ==
    /\ reader \in Readers
    /\ stdinPc = "reading"
    /\ written = <<>>
    /\ readPos = 0
    /\ lineBuffer = <<>>
    /\ enqueued = <<>>

StdinIdle == StdinInit /\ reader = "node"

\* the orchestrator writes one more line
WriteLine ==
    /\ Len(written) < MaxLines
    /\ \E kind \in LineKinds : written' = Append(written, kind)
    /\ UNCHANGED <<reader, stdinPc, readPos, lineBuffer, enqueued>>

\* process.stdin.on('data', ..) / the for scanner.Scan() loop, on the next
\* chunk of the stream
ReadChunk ==
    /\ stdinPc = "reading"
    /\ \E to \in (readPos + 1)..(PiecesPerLine * Len(written)) :
        LET st == HandleChunk(reader, [buf |-> lineBuffer, enq |-> enqueued, alive |-> TRUE],
                              readPos + 1, to, written) IN
        /\ readPos' = to
        /\ lineBuffer' = st.buf
        /\ enqueued' = st.enq
        /\ stdinPc' = IF st.alive THEN "reading" ELSE "stopped"
    /\ UNCHANGED <<reader, written>>

StdinNext ==
    \/ WriteLine /\ UNCHANGED besideStdin
    \/ ReadChunk /\ UNCHANGED besideStdin

\* ------------------------------------------------- the restart backoff

BackoffInit ==
    /\ backoffPc = "open"
    /\ clock = 0
    /\ closeConflict = FALSE
    /\ dueAt = 0
    /\ emittedAt = 0

\* the close callback with a status other than loggedOut:
\* setTimeout(() => requestRestartAndExit(reason, 200), delay)
TransientClose ==
    /\ backoffPc = "open"
    /\ \E isConflict \in BOOLEAN :
        /\ closeConflict' = isConflict
        /\ dueAt' = clock + RestartDelay(isConflict)
    /\ backoffPc' = "closed"
    /\ UNCHANGED <<clock, emittedAt>>

\* time passes
Tick ==
    /\ backoffPc \in {"closed", "emitted"}
    /\ clock + TickMs <= MaxClockMs
    /\ clock' = clock + TickMs
    /\ UNCHANGED <<backoffPc, closeConflict, dueAt, emittedAt>>

\* the restart timer runs, at its due time or later: requestRestartAndExit
\* writes restart_requested and sets the exit timer
RestartRequested ==
    /\ backoffPc = "closed"
    /\ clock >= dueAt
    /\ backoffPc' = "emitted"
    /\ emittedAt' = clock
    /\ dueAt' = clock + FlushDelay
    /\ UNCHANGED <<clock, closeConflict>>

\* setTimeout(() => process.exit(0), delay) runs
ExitAfterFlush ==
    /\ backoffPc = "emitted"
    /\ clock >= dueAt
    /\ backoffPc' = "exited"
    /\ UNCHANGED <<clock, closeConflict, dueAt, emittedAt>>

BackoffNext ==
    \/ TransientClose /\ UNCHANGED besideBackoff
    \/ Tick /\ UNCHANGED besideBackoff
    \/ RestartRequested /\ UNCHANGED besideBackoff
    \/ ExitAfterFlush /\ UNCHANGED besideBackoff

\* ----------------------------------------------- presence signals failing

PresenceInit == presenceFailures = {}

\* the 'composing' signal settles, its failure recorded
PresenceComposing ==
    \E presenceFailed \in BOOLEAN :
        /\ ComposingSettles(presenceFailed)
        /\ presenceFailures' = IF presenceFailed
                               THEN presenceFailures \cup {<<worker.cmd.id, "composing">>}
                               ELSE presenceFailures

\* the 'paused' signal settles, its failure recorded
PresencePaused ==
    \E presenceFailed \in BOOLEAN :
        /\ PausedSettles(presenceFailed)
        /\ presenceFailures' = IF presenceFailed
                               THEN presenceFailures \cup {<<worker.cmd.id, "paused">>}
                               ELSE presenceFailures

PresenceNext ==
    \/ StartGateway /\ UNCHANGED <<presenceFailures, besidePresence>>
    \/ ConnectionOpen(MaxOpens) /\ UNCHANGED <<presenceFailures, besidePresence>>
    \/ ConnectionClose(MaxCloses) /\ UNCHANGED <<presenceFailures, besidePresence>>
    \/ Stdin(MaxCmds) /\ UNCHANGED <<presenceFailures, besidePresence>>
    \/ PresenceComposing /\ UNCHANGED besidePresence
    \/ SendDone /\ UNCHANGED <<presenceFailures, besidePresence>>
    \/ RetryTimer /\ UNCHANGED <<presenceFailures, besidePresence>>
    \/ PresencePaused /\ UNCHANGED besidePresence
    \/ PauseTimer /\ UNCHANGED <<presenceFailures, besidePresence>>

\* ------------------------------------------- dashboard WebSocket controller

\* event.code of a close event: normal, going away, abnormal
CloseCodes == {1000, GoingAway, 1006}

\* a back-off without the cap
NextDelayUncapped(delay) == delay * 2
\* reconnectDelay = Math.min(reconnectDelay * 2, 30000)
NextDelay(delay) == Min(delay * 2, MaxReconnectDelay)

\* createWebSocket up to its return: connect() has created the first socket
WsInit ==
    /\ sockState = "connecting"
    /\ stopped = FALSE
    /\ pingIntervals = 0
    /\ reconnectTimers = 0
    /\ timerDelay = 0
    /\ reconnectDelay = FirstReconnectDelay
    /\ sockets = 1
    /\ consecutive = 0

\* ws.onopen.  The open event of a socket that controller.close() closed
\* while it was connecting may still be delivered.
WsOpen ==
    /\ sockState \in {"connecting", "closingEarly"}
    /\ sockState' = IF sockState = "connecting" THEN "open" ELSE "closing"
    /\ reconnectDelay' = FirstReconnectDelay
    /\ reconnectTimers' = 0
    /\ pingIntervals' = 1
    /\ consecutive' = 0
    /\ UNCHANGED <<stopped, timerDelay, sockets>>

\* ws.onclose (ws.onerror before it only logs)
WsClose ==
    /\ sockState \in {"connecting", "open", "closingEarly", "closing"}
    /\ sockState' = "closed"
    /\ pingIntervals' = 0
    /\ \E code \in CloseCodes :
        IF stopped \/ code = GoingAway
        THEN /\ reconnectTimers' = 0
             /\ UNCHANGED <<timerDelay, consecutive>>
        ELSE /\ reconnectTimers' = 1
             /\ timerDelay' = reconnectDelay
             /\ consecutive' = consecutive + 1
    /\ UNCHANGED <<stopped, reconnectDelay, sockets>>

\* the reconnect timer runs: the delay doubles, connect() creates a socket
\* unless stopped
ReconnectTimer ==
    /\ reconnectTimers > 0
    /\ sockets < MaxSockets
    /\ reconnectTimers' = reconnectTimers - 1
    /\ reconnectDelay' = NextDelay(reconnectDelay)
    /\ IF stopped
       THEN UNCHANGED <<sockState, sockets>>
       ELSE /\ sockState' = "connecting"
            /\ sockets' = sockets + 1
    /\ UNCHANGED <<stopped, pingIntervals, timerDelay, consecutive>>

\* controller.close(): stopped = true; clearTimers(); ws.close(1000, ..); ws = null
ControllerClose ==
    /\ ~stopped
    /\ stopped' = TRUE
    /\ pingIntervals' = 0
    /\ reconnectTimers' = 0
    /\ sockState' = CASE sockState = "connecting" -> "closingEarly"
                      [] sockState = "open"       -> "closing"
                      [] OTHER                    -> sockState
    /\ UNCHANGED <<timerDelay, reconnectDelay, sockets, consecutive>>

WsNext ==
    \/ WsOpen /\ UNCHANGED besideWs
    \/ WsClose /\ UNCHANGED besideWs
    \/ ReconnectTimer /\ UNCHANGED besideWs
    \/ ControllerClose /\ UNCHANGED besideWs

\* ------------------------------------------------------- history batches

HistoryAddresses == {"a@s.whatsapp.net", "b@s.whatsapp.net", "status@broadcast"}
BatchSizes ==
    {0, 1, GoMaxHistoryPerContact - 1, GoMaxHistoryPerContact, GoMaxHistoryPerContact + 1,
     MaxHistoryPerContact - 1, MaxHistoryPerContact, MaxHistoryPerContact + 1}
BatchOrders == {"oldestFirst", "newestFirst", "mixed"}

\* the timestamp of the i-th of n messages
TimestampOf(order, i, n) ==
    CASE order = "oldestFirst" -> i
      [] order = "newestFirst" -> n + 1 - i
      [] OTHER                 -> ((i * 7) % 211) + 1

HistoryMsg(jid, ts, text) == [id |-> ts, from |-> jid, text |-> text, timestamp |-> ts]

\* n messages of one chat; with others, a status broadcast, a message without
\* text and a message of a second chat follow
Batch(n, order, others) ==
    [i \in 1..n |-> HistoryMsg("a@s.whatsapp.net", TimestampOf(order, i, n), "text")]
    \o (IF others
        THEN << HistoryMsg("status@broadcast", 300, "text"),
                HistoryMsg("a@s.whatsapp.net", 301, ""),
                HistoryMsg("b@s.whatsapp.net", 302, "text") >>
        ELSE << >>)

\* if (!jid || jid.includes('broadcast') || jid.includes('status@')) continue;
\* if (!text) continue;
Kept(msg) == msg.from # "status@broadcast" /\ msg.text # ""

\* byContact[jid]
ByContact(msgs, jid) == SelectSeq(msgs, LAMBDA m : Kept(m) /\ m.from = jid)

\* msgs.sort((a, b) => (Number(b.timestamp) || 0) - (Number(a.timestamp) || 0))
NewestFirst(msgs) == SortSeq(msgs, LAMBDA a, b : a.timestamp > b.timestamp)

\* msgs.slice(0, cap) / msgs[:cap]
Slice(msgs, cap) == SubSeq(msgs, 1, Min(cap, Len(msgs)))

\* the JS gateway sorts, then slices
JsCapped(msgs, cap) == [jid \in HistoryAddresses |-> Slice(NewestFirst(ByContact(msgs, jid)), cap)]

\* the Go gateway slices the messages in the order they came
GoCapped(msgs) == [jid \in HistoryAddresses |-> Slice(ByContact(msgs, jid), GoMaxHistoryPerContact)]

HistoryInit ==
    /\ historyHandler = "none"
    /\ batch = << >>
    /\ emitted = [jid \in HistoryAddresses |-> << >>]

\* sock.ev.on('messaging-history.set', ..)
MessagingHistorySet ==
    /\ \E n \in BatchSizes, order \in BatchOrders, others \in BOOLEAN :
        /\ batch' = Batch(n, order, others)
        /\ emitted' = JsCapped(batch', MaxHistoryPerContact)
    /\ historyHandler' = "messaging-history.set"

\* sock.ev.on('messages.upsert', ..) with m.type === 'append'
UpsertAppend ==
    /\ \E n \in BatchSizes, order \in BatchOrders, others \in BOOLEAN :
        /\ batch' = Batch(n, order, others)
        /\ emitted' = JsCapped(batch', MaxPerContact)
    /\ historyHandler' = "messages.upsert"

\* handleHistorySync of the Go gateway
HandleHistorySync ==
    /\ \E n \in BatchSizes, order \in BatchOrders, others \in BOOLEAN :
        /\ batch' = Batch(n, order, others)
        /\ emitted' = GoCapped(batch')
    /\ historyHandler' = "handleHistorySync"

HistoryNext ==
    \/ MessagingHistorySet /\ UNCHANGED besideHistory
    \/ UpsertAppend /\ UNCHANGED besideHistory
    \/ HandleHistorySync /\ UNCHANGED besideHistory

\* ------------------------------------------------ requesting a pairing code

\* a guard without the flag
MayRequestAlways(requested) == TRUE
\* ... && !isPairingCodeRequested
MayRequest(requested) == ~requested

PairInit ==
    /\ isPairingCodeRequested = FALSE
    /\ registered = FALSE
    /\ waiting = 0
    /\ requesting = 0
    /\ requestsMade = 0
    /\ succeeded = 0
    /\ failures = 0
    /\ updates = 0

\* sock.ev.on('connection.update') with a qr or isNewLogin, up to its first await:
\* if (phoneNumber && !state.creds.registered && (qr || update.isNewLogin) &&
\*     !isPairingCodeRequested) { isPairingCodeRequested = true; await 1500 ms
PairingUpdate ==
    /\ updates < MaxUpdates
    /\ updates' = updates + 1
    /\ IF pairingMode /\ ~registered /\ MayRequest(isPairingCodeRequested)
       THEN /\ isPairingCodeRequested' = TRUE
            /\ waiting' = waiting + 1
       ELSE UNCHANGED <<isPairingCodeRequested, waiting>>
    /\ UNCHANGED <<registered, requesting, requestsMade, succeeded, failures, authVars>>

\* the 1500 ms wait ends: sock.requestPairingCode(phoneNumber) is called
PairingWaitDone ==
    /\ waiting > 0
    /\ waiting' = waiting - 1
    /\ requesting' = requesting + 1
    /\ requestsMade' = requestsMade + 1
    /\ UNCHANGED <<isPairingCodeRequested, registered, succeeded, failures, updates, authVars>>

\* the request settles: a pairing_code event, or the catch resets the flag
PairingRequestSettles ==
    /\ requesting > 0
    /\ requesting' = requesting - 1
    /\ \E threw \in BOOLEAN :
        IF threw
        THEN /\ isPairingCodeRequested' = FALSE
             /\ failures' = failures + 1
             /\ UNCHANGED succeeded
        ELSE /\ succeeded' = succeeded + 1
             /\ UNCHANGED <<isPairingCodeRequested, failures>>
    /\ UNCHANGED <<registered, waiting, requestsMade, updates, authVars>>

\* the code is entered on the phone: the adapter sets state.creds.registered
PairingCompletes ==
    /\ succeeded > 0
    /\ ~registered
    /\ registered' = TRUE
    /\ UNCHANGED <<isPairingCodeRequested, waiting, requesting, requestsMade, succeeded,
                   failures, updates, authVars>>

PairNext ==
    \/ PairingUpdate /\ UNCHANGED besidePair
    \/ PairingWaitDone /\ UNCHANGED besidePair
    \/ PairingRequestSettles /\ UNCHANGED besidePair
    \/ PairingCompletes /\ UNCHANGED besidePair

\* ------------------------------------------------ the session stays open

DrainInit == preOpen = {}

\* the stdin handler, with the command's id recorded if no open event came yet
DrainStdin ==
    /\ Stdin(MaxCmds)
    /\ preOpen' = IF opens = 0 THEN preOpen \cup {nextId} ELSE preOpen

\* the awaits and timers of the worker loop
DrainWorker ==
    /\ \/ ComposingDone
       \/ SendDone
       \/ RetryTimer
       \/ PausedDone
       \/ PauseTimer
    /\ UNCHANGED <<preOpen, besideDrain>>

\* no close event and no signal arrives
DrainNext ==
    \/ StartGateway /\ UNCHANGED <<preOpen, besideDrain>>
    \/ ConnectionOpen(MaxOpens) /\ UNCHANGED <<preOpen, besideDrain>>
    \/ DrainStdin /\ UNCHANGED besideDrain
    \/ ComposingDone /\ UNCHANGED <<preOpen, besideDrain>>
    \/ SendDone /\ UNCHANGED <<preOpen, besideDrain>>
    \/ RetryTimer /\ UNCHANGED <<preOpen, besideDrain>>
    \/ PausedDone /\ UNCHANGED <<preOpen, besideDrain>>
    \/ PauseTimer /\ UNCHANGED <<preOpen, besideDrain>>

\* ---------------------------------------------------------- specifications

\* the gateways, their directories and the merge functions
OldInit == GatewayInit /\ DirInit /\ GoInit /\ GoDirInit /\ MergeInit /\ DrainInit

\* every part but the credential store, each before its first step
RestInit == OldInit /\ ClearIdle /\ LimitInit /\ KeysInit /\ MediaInit /\ StdinIdle
            /\ BackoffInit /\ PresenceInit /\ WsInit /\ HistoryInit
            /\ PairInit

\* a first run of the deployed revision: nothing stored, QR linking
AuthFirstRun ==
    /\ AuthInit
    /\ revision = "r2_auth_state.js"
    /\ ~pairingMode
    /\ bucket = [f \in Files |-> Absent]

Init == RestInit /\ AuthFirstRun

\* The gateway's handlers, directory effects aside: debouncedSendContacts() of
\* the open branch and contacts = {} of the logout branch are DirOpen and
\* DirClose.
Step(maxCmds, maxCloses, maxOpens) ==
    \/ StartGateway /\ UNCHANGED besideGateway
    \/ ConnectionOpen(maxOpens) /\ UNCHANGED besideGateway
    \/ ConnectionClose(maxCloses) /\ UNCHANGED besideGateway
    \/ EraseSettled /\ UNCHANGED besideGateway
    \/ RestartTimer /\ UNCHANGED besideGateway
    \/ ExitTimer /\ UNCHANGED besideGateway
    \/ Signal /\ UNCHANGED besideGateway
    \/ Stdin(maxCmds) /\ UNCHANGED besideGateway
    \/ ComposingDone /\ UNCHANGED besideGateway
    \/ SendDone /\ UNCHANGED besideGateway
    \/ RetryTimer /\ UNCHANGED besideGateway
    \/ PausedDone /\ UNCHANGED besideGateway
    \/ PauseTimer /\ UNCHANGED besideGateway

Next == Step(MaxCmds, MaxCloses, MaxOpens)

Spec == Init /\ [][Next]_vars

LifeNext == Step(LifeMaxCmds, LifeMaxCloses, MaxOpens)

LifeSpec == Init /\ [][LifeNext]_vars

DirSpec == Init /\ [][DirNext]_vars

GoSpec == Init /\ [][GoNext]_vars

GoDirSpec == Init /\ [][GoDirNext]_vars

MergeSpec == Init /\ [][MergeNext]_vars

MediaSpec == Init /\ [][MediaNext]_vars

BackoffSpec == Init /\ [][BackoffNext]_vars

PresenceSpec == Init /\ [][PresenceNext]_vars

WsSpec == Init /\ [][WsNext]_vars

HistorySpec == Init /\ [][HistoryNext]_vars

\* a gateway started with or without a phone number, nothing stored
PairSpecInit ==
    /\ RestInit
    /\ AuthInit
    /\ revision = "r2_auth_state.js"
    /\ bucket = [f \in Files |-> Absent]

PairSpec == PairSpecInit /\ [][PairNext]_vars

\* either gateway reading the stream
StdinSpecInit ==
    /\ OldInit
    /\ AuthFirstRun
    /\ ClearIdle
    /\ LimitInit
    /\ KeysInit
    /\ MediaInit
    /\ StdinInit
    /\ BackoffInit
    /\ PresenceInit
    /\ WsInit
    /\ HistoryInit
    /\ PairInit

StdinSpec == StdinSpecInit /\ [][StdinNext]_vars

\* either revision, over what the bucket may hold when the process starts
AnyStoreInit == RestInit /\ AuthInit

AuthSpec == AnyStoreInit /\ [][AuthNext]_vars

\* either revision behind the utility, nothing else of the store in use
ClearSpecInit ==
    /\ OldInit
    /\ AuthInit
    /\ ~pairingMode
    /\ bucket = [f \in Files |-> Absent]
    /\ ClearInit
    /\ LimitInit
    /\ KeysInit
    /\ MediaInit
    /\ StdinIdle
    /\ BackoffInit
    /\ PresenceInit
    /\ WsInit
    /\ HistoryInit
    /\ PairInit

\* either revision of the store, before its first keys.set
LimitSpecInit ==
    /\ OldInit
    /\ AuthInit
    /\ ~pairingMode
    /\ bucket = [f \in Files |-> Absent]
    /\ ClearIdle
    /\ LimitInit
    /\ KeysInit
    /\ MediaInit
    /\ StdinIdle
    /\ BackoffInit
    /\ PresenceInit
    /\ WsInit
    /\ HistoryInit
    /\ PairInit

\* the key store of either revision
KeysSpec == LimitSpecInit /\ [][KeysNext]_vars

LimitSpec == LimitSpecInit /\ [][LimitNext]_vars

\* every storage request the wipe awaits settles
ClearSpec == ClearSpecInit /\ [][ClearNext]_vars /\ WF_vars(ClearNext)

\* every promise the worker awaits settles and every timer it sets expires;
\* stdin and the adapter owe nothing
DrainSpec == Init /\ [][DrainNext]_vars /\ WF_vars(DrainWorker)

\* ================================================================ claims

Completions(c) == acks[c] + errs[c]

Enqueued == 1..(nextId - 1)

RestartReasons == {restartLog[i] : i \in 1..Len(restartLog)}

LogoutRestarts == Cardinality({i \in 1..Len(restartLog) : restartLog[i] = "logged_out_401_cleared"})

PendingRestartTimers == timers[NormalDelay] + timers[ConflictDelay] + timers[LogoutDelay]

\* the failures the claim's whitelist names: rate-limit 428, closed connection, timeout
Whitelisted(err) ==
    err.statusCode = 428 \/ err.message \in {"Connection Closed", "timed out"}

\* C1: every command read from stdin ends in exactly one completion event
\* (one ack or one error, never both, never two, never none); once the
\* gateway has gone through a restart exit, every enqueued command has its
\* completion event.
C1_ExactlyOneCompletion ==
    /\ \A c \in CmdIds : Completions(c) <= 1
    /\ (pc = "exited" /\ exitVia = "restart") => \A c \in Enqueued : Completions(c) = 1

\* the half of C1 the code keeps: no command ever gets two completion events
AtMostOneCompletion == \A c \in CmdIds : Completions(c) <= 1

\* C2: a command is never attempted a 4th time, never waits for a retry after
\* its 3rd attempt, and a command that ended in an error on a whitelisted
\* transient failure ended after exactly 3 attempts; three failed attempts
\* leave the command with its error event.
C2_RetryBound ==
    /\ worker.attempts <= 3
    /\ worker.pc = "retryWait" => worker.attempts < 3 /\ Whitelisted(worker.lastError)
    /\ (worker.pc = "pause" /\ Whitelisted(worker.lastError) /\ errs[worker.cmd.id] = 1)
          => worker.attempts = 3
    /\ (worker.attempts = 3 /\ worker.pc # "sending" /\ acks[worker.cmd.id] = 0)
          => worker.pc = "pause" /\ errs[worker.cmd.id] = 1

\* a command's 3rd attempt has failed with a whitelisted error and its error is reported
C2_Witness ==
    /\ worker.pc = "pause"
    /\ worker.attempts = 3
    /\ Whitelisted(worker.lastError)
    /\ errs[worker.cmd.id] = 1

\* C3: once an attempt has failed with a non-whitelisted error the command
\* is over: no retry wait, no further attempt (the attempts made are the one
\* that failed plus one per retry spent before it), and exactly one error
\* event and no ack for it.
C3_NoRetryOnFatal ==
    (worker.lastError # NoError /\ ~Whitelisted(worker.lastError)) =>
        /\ worker.pc = "pause"
        /\ worker.attempts = 1 + (InitialRetries - worker.retries)
        /\ errs[worker.cmd.id] = 1
        /\ acks[worker.cmd.id] = 0

\* a first attempt failed with a non-whitelisted error while all retries were left
C3_Witness ==
    /\ worker.lastError # NoError
    /\ ~Whitelisted(worker.lastError)
    /\ worker.retries = 3
    /\ worker.attempts = 1
    /\ errs[worker.cmd.id] = 1

\* C5: a send_message enqueued after the session closed gets its error event:
\* none is left sitting in the queue when the gateway exits for a restart.
C5_LateSendGetsError ==
    (pc = "exited" /\ exitVia = "restart") =>
        \A i \in 1..Len(messageQueue) :
            ~(messageQueue[i].late /\ messageQueue[i].type = "send_message")

\* C6: startGateway runs at most once per process, whatever the close events;
\* a restart exit is always preceded by a restart_requested event.
C6_SingleConnect ==
    /\ connectCalls <= 1
    /\ exitVia = "restart" => restartLog # <<>>

\* two close callbacks have been handled by a process that connected once
C6_Witness == closes >= 2 /\ connectCalls = 1

\* C7: on the logout path the cooldown timer is armed only once the erase has
\* settled, the logout restart_requested is written only by that timer, and the
\* exit timer only by a restart_requested: erase, cooldown, event, exit.
C7_LogoutOrder ==
    /\ timers[LogoutDelay] + LogoutRestarts = erased
    /\ exitTimers <= Len(restartLog)
    /\ ("logged_out_401_cleared" \in RestartReasons /\ pc = "exited" /\ exitVia = "restart")
          => erased > 0 /\ exitTimers > 0

\* a logout ran to its end: erased, cooled down, restart requested, exited
C7_Witness ==
    /\ pc = "exited"
    /\ exitVia = "restart"
    /\ "logged_out_401_cleared" \in RestartReasons

\* C8: when the gateway exits on a restart path its adapter listeners have been
\* unsubscribed and the transport has been force-closed.
C8_CleanupBeforeExit ==
    (pc = "exited" /\ exitVia = "restart") => (~listenersOn /\ sockEnded)

\* C9: once SIGINT or SIGTERM has been handled no restart_requested event is
\* written any more.
C9_NoRestartAfterSignal == [][sigReceived => restartLog' = restartLog]_vars

\* a signal arrived while a restart timer was pending, and the shutdown's own
\* socket close armed another one
C9_Witness == sigReceived /\ closes = 1 /\ PendingRestartTimers = 2

\* C4: at no time are two commands executing concurrently, and a command
\* starts executing only after every command enqueued before it has its ack
\* or error.  Stated of the Go gateway's goroutines.
C4_SingleWorkerFifo ==
    /\ Cardinality(goRunning) <= 1
    /\ \A c \in goRunning : \A i \in 1..(c.id - 1) : goAcks[i] + goErrs[i] = 1

\* the same statement of the Node gateway's worker loop
NodeSingleWorkerFifo ==
    worker.pc \in {"composing", "sending", "retryWait", "paused"} =>
        /\ isProcessingQueue
        /\ \A i \in 1..(worker.cmd.id - 1) : Completions(i) = 1
        /\ \A i \in 1..Len(messageQueue) : messageQueue[i].id > worker.cmd.id

\* C10: once an address has a non-empty name, no merge clears it.  Stated of
\* the Go gateway's directory (handleContactEvent, handleHistorySync,
\* handleMessage).
C10_NameNeverCleared ==
    [][\A a \in GoAddresses :
          (goContacts[a].present /\ goContacts[a].Name # "") => goContacts'[a].Name # ""]_vars

\* the same statement of the Node gateway's directory; a logout's contacts = {}
\* is no merge
NodeNameNeverCleared ==
    [][contacts' # EmptyDir =>
          \A a \in DirAddresses : Truthy(contacts[a].name) => Truthy(contacts'[a].name)]_vars

\* C11: a batch of partial records yields the same directory in every arrival
\* order: the last two records, swapped, give the directory they gave.
C11_OrderIndependent == mSwapped = mDir

\* C12: applying a record a second time, right after the first and through
\* the same channel, changes nothing, in the Node directory and in the Go one.
C12_Idempotent == mAgain = mDir /\ gAgain = gDir

\* merges have named an address in both directories
C12_Witness ==
    /\ mDir[AddrPerson].present /\ mDir[AddrPerson].name = "B"
    /\ mDir[AddrPerson].notify = "A"
    /\ gDir[AddrPerson].present /\ gDir[AddrPerson].Name = "A"

\* a merge added an address or gave a nameless address its name
AddsOrUpgrades(old, new) ==
    \E a \in DirAddresses :
        \/ ~old[a].present /\ new[a].present
        \/ ~Truthy(old[a].name) /\ Truthy(new[a].name)

\* C13: a merge that adds an address or upgrades a name writes a `contacts`
\* event in the same handler run and leaves a debounce timer armed.
C13_EmitOnMerge ==
    [][AddsOrUpgrades(contacts, contacts') => (wroteContacts' /\ contactsTimeout' > 0)]_vars

\* C14: however many merges land within one debounce window, the window's
\* timers write at most 2 `contacts` events; none while a timer is pending
\* with no expiry yet, and at most one timer is pending.
C14_DebounceCollapsing ==
    /\ windowFires <= 2
    /\ contactsTimeout <= 1
    /\ windowFires + contactsTimeout <= 2

\* a window took in the most merges the bound allows and ended in one emission
C14_Witness ==
    /\ windowMerges = MaxWindowMerges
    /\ windowFires = 1
    /\ contactsTimeout = 0
    /\ wroteContacts

\* C16: handling the open event writes a `contacts` event: the snapshot is
\* flushed by the handler run that marks the session connected.
C16_OpenFlushes == [][(~isConnected /\ isConnected') => wroteContacts']_vars

\* the addresses a `contacts` event may expose: individual and linked-identity
Exposable(a) == a.server \in {"s.whatsapp.net", "lid"}

\* C15: every id of every emitted `contacts` snapshot is an individual or a
\* linked-identity address.  Stated of the Go gateway's sendContacts.
C15_OnlyIndividuals == \A a \in goSnapshot : Exposable(a)

\* the same statement of the Node gateway's sendContacts
NodeOnlyIndividuals == \A a \in snapshot : Exposable(a)

\* C17: once the session is open, every command that was enqueued before the
\* open event gets its completion event, with no further stdin input needed.
C17_OpenDrains ==
    \A c \in CmdIds : (isConnected /\ c \in preOpen) ~> (Completions(c) = 1)

\* two commands were enqueued before the open event and both have completed
\* after it, the second one only after the first
C17_Witness ==
    /\ opens = 1
    /\ preOpen = {1, 2}
    /\ Completions(1) = 1
    /\ Completions(2) = 1
    /\ messageQueue = <<>>

\* C18: in pairing-code mode a socket is never created on a stale record
\* (not registered, yet holding account material): such a record is wiped and
\* a fresh one acquired first.
C18_StaleWipedBeforeSocket ==
    (authPc = "socket" /\ pairingMode) => sockCreds # "stale"

\* C19: a load or keys.get whose storage read failed for a reason other than
\* 'not found' does not hand its caller an absent result.
C19_FailureNotAbsent ==
    (lastRead.op # "none" /\ lastRead.failure) => lastRead.got # Absent

C21_BatchedClear ==
    /\ []((clearPc = "resolved" /\ ~clearFailed) => remaining = 0)
    /\ <>(clearPc \in {"resolved", "threw", "wiped"})

\* the revised clearState emptied a session of more than two listing pages
C21_Witness ==
    /\ revision = "part_001"
    /\ clearPc = "resolved"
    /\ ~clearFailed
    /\ listRequests >= 3
    /\ maxBatch = BatchLimit
    /\ remaining = 0

\* C22: clearState() deletes by list-then-batch-delete: no delete request
\* carries more than the per-request maximum of keys, and no request deletes
\* a single key by itself (DeleteObjectCommand).
C22_ListThenBatchDelete ==
    /\ maxBatch <= BatchLimit
    /\ perKeyDeletes = 0

\* C23: during a keys.set call, for any number of keys, at most 20 storage
\* write / delete requests are in flight at the same moment.
C23_BoundedWrites == inFlight <= KeysSetLimit

\* the same statement of the revision that has pLimit
LimitedWritesRevised == revision = "part_001" => inFlight <= KeysSetLimit

\* C24: a keys.get that follows a keys.set, no storage request of either
\* having failed, returns for every (category, id) the set gave a value that
\* value, and nothing for every one the set gave null, whose object is gone;
\* the object of a (category, id) the set did not name is as it was.
C24_SetGetRoundTrip ==
    (got.ran /\ setPc = "resolved" /\ setFailed = {} /\ got.failed = {}) =>
        \A k \in KeyNames :
            /\ setData[k] \in ValuesOf(k) => got.data[k] = setData[k]
            /\ setData[k] = Null =>
                   (got.data[k] = Null /\ keyStore[FileOf(k)] = Absent)
            /\ setData[k] = Unnamed => keyStore[FileOf(k)] = before[FileOf(k)]

\* a set that replaced the pre-key and removed a stored app-state-sync-key, and
\* the get after it
C24_Witness ==
    /\ got.ran
    /\ setPc = "resolved"
    /\ setFailed = {}
    /\ got.failed = {}
    /\ before[FileOf(<<"pre-key", "1">>)] = "k1"
    /\ setData[<<"pre-key", "1">>] = [kind |-> "plain", fields |-> "k2"]
    /\ got.data[<<"pre-key", "1">>] = [kind |-> "plain", fields |-> "k2"]
    /\ before[FileOf(<<"app-state-sync-key", "AAAA">>)] = "k1"
    /\ setData[<<"app-state-sync-key", "AAAA">>] = Null
    /\ got.data[<<"app-state-sync-key", "AAAA">>] = Null

C26_DedupIdempotent ==
    (\A h \in Runs : mediaPc[h] = "done" /\ returned[h] # NoPath) =>
        /\ Cardinality(mediaFiles) = 1
        /\ returned[1] = returned[2]

\* the same statement of two messages of one message type
SameTypeDedup ==
    (mediaExt[1] = mediaExt[2]) => C26_DedupIdempotent

\* the valid command lines among the first n lines written, in order
ValidAmong(n) == SelectSeq([i \in 1..n |-> i], LAMBDA i : written[i] = "valid")

\* lines whose newline has been delivered
LinesDelivered == readPos \div PiecesPerLine

\* C27: a line that is not valid JSON is skipped and enqueues nothing, the
\* reader keeps reading, and the valid command lines delivered so far, in the
\* same chunk or in other chunks, have all been enqueued, in order.
C27_MalformedNeverFatal ==
    /\ stdinPc = "reading"
    /\ enqueued = ValidAmong(LinesDelivered)

\* the same statement of the Node gateway's stdin handler
NodeMalformedNeverFatal == reader = "node" => C27_MalformedNeverFatal

\* the same statement of the Go gateway while no line outgrew the scanner
GoMalformedSkipped ==
    (reader = "go" /\ \A i \in 1..Len(written) : written[i] # "oversized")
        => C27_MalformedNeverFatal

\* C29: after a transient close the restart timer is set further ahead when
\* the close reason names a conflict (5 s) than when it does not (0.5 s);
\* restart_requested is written no earlier than that backoff after the close,
\* and the process exits only after it was written.
C29_ConflictBackoffLonger ==
    /\ ConflictDelay > NormalDelay
    /\ backoffPc = "closed" => dueAt = (IF closeConflict THEN ConflictDelay ELSE NormalDelay)
    /\ backoffPc \in {"emitted", "exited"} =>
           emittedAt >= (IF closeConflict THEN ConflictDelay ELSE NormalDelay)
    /\ backoffPc = "exited" => clock >= emittedAt + FlushDelay

\* a conflict close: restart_requested five seconds later, the exit 200 ms
\* after that
C29_Witness ==
    /\ backoffPc = "exited"
    /\ closeConflict
    /\ emittedAt = ConflictDelay
    /\ clock = ConflictDelay + FlushDelay

\* C30: in --clear-state mode the gateway exits without starting: startGateway
\* is not invoked and no socket is created, and the exit code is 0 when the
\* credentials of the selected backend were wiped and 1 when the wipe failed.
C30_ClearStateUtility ==
    /\ connectCalls = 0
    /\ pc = "boot"
    /\ exitCode # NotExited =>
           /\ exitCode = (IF clearFailed THEN 1 ELSE 0)
           /\ exitCode = 0 => remaining = 0

\* the same statement of the local backend and of the revised clearState
UtilityExitCodeElsewhere ==
    (backend = "local" \/ revision = "part_001") => C30_ClearStateUtility

\* C31: a failed 'composing' or 'paused' presence signal emits no error event
\* and changes nothing of the command's outcome: after a failed 'composing'
\* the command goes on to its attempt, after a failed 'paused' the ack stands
\* and the loop goes on to its pause; no command gets two completion events.
C31_PresenceSwallowed ==
    [][/\ presenceFailures' # presenceFailures =>
              /\ errs' = errs
              /\ worker.pc = "composing" => worker'.pc \in {"sending", "paused"}
              /\ worker.pc = "paused" => (acks' = acks /\ worker'.pc = "pause")
       /\ \A c \in CmdIds : acks'[c] + errs'[c] <= 1]_vars

\* both presence signals of the first command failed and it was acknowledged
C31_Witness ==
    /\ presenceFailures = {<<1, "composing">>, <<1, "paused">>}
    /\ acks[1] = 1
    /\ errs[1] = 0
    /\ worker.pc = "pause"

\* C32: at most one debounce timer is pending at any time: a call of
\* debouncedSendContacts leaves exactly one pending, the one it set, and every
\* emission by a timer is the expiry of the one pending timer, so a timer
\* that was cancelled emits nothing.
C32_OneTimerPending ==
    [][/\ contactsTimeout' <= 1
       /\ contactsTimeout' > contactsTimeout => contactsTimeout = 0
       /\ windowFires' = windowFires + 1 => (contactsTimeout = 1 /\ contactsTimeout' = 0)]_vars

\* a timer was set, set again while pending, and the window ended in the one
\* emission of the second timer
C32_Witness ==
    /\ windowMerges = 2
    /\ windowFires = 1
    /\ contactsTimeout = 0
    /\ wroteContacts
    /\ isConnected

\* C33: once controller.close() has been called no WebSocket is created, and
\* no reconnect timer and no ping interval is pending, whatever events of the
\* old socket are delivered afterwards.
C33_ClosePermanent ==
    [][stopped' =>
          /\ pingIntervals' = 0
          /\ reconnectTimers' = 0
          /\ stopped => sockets' = sockets]_vars

\* what does hold after controller.close(): no socket is created and no
\* reconnect timer is pending; and a ping interval started by a late open
\* event stops with the socket's close event
NoReconnectAfterClose ==
    [][stopped' =>
          /\ reconnectTimers' = 0
          /\ stopped => sockets' = sockets
          /\ sockState' = "closed" => pingIntervals' = 0]_vars

\* the k-th reconnect delay in a row of the documented back-off: 1 s, 2 s,
\* 4 s, ... capped at 30 s
RECURSIVE Backoff(_)
Backoff(k) == IF k <= 1 THEN 1000 ELSE Min(2 * Backoff(k - 1), 30000)

\* C34: the reconnect delay is always within [1000, 30000] ms, the timer set
\* after the k-th failure in a row waits Backoff(k), and the delay is 1000 ms
\* while a socket is open.
C34_ExponentialBackoff ==
    /\ reconnectDelay >= 1000
    /\ reconnectDelay <= 30000
    /\ reconnectTimers > 0 => timerDelay = Backoff(consecutive)
    /\ sockState = "open" => reconnectDelay = 1000

\* the seventh failure in a row waits the capped 30 s
C34_Witness ==
    /\ reconnectTimers = 1
    /\ consecutive = 7
    /\ timerDelay = 30000
    /\ ~stopped

\* the per-address maximum of the handler that ran last
CapOf(handler) == IF handler = "handleHistorySync" THEN 50 ELSE 200

\* the elements of a sequence
Range(seq) == {seq[i] : i \in DOMAIN seq}

\* what an emitted batch holds for one address is capped and is the most
\* recent of the messages with text received for it
CappedMostRecent(jid) ==
    LET received == Range(ByContact(batch, jid))
        retained == Range(emitted[jid])
    IN  /\ Len(emitted[jid]) = Min(CapOf(historyHandler), Cardinality(received))
        /\ retained \subseteq received
        /\ \A m \in retained : \A dropped \in received \ retained :
               m.timestamp >= dropped.timestamp

\* C35: every emitted history_messages batch holds, for each address, at most
\* the per-address maximum (200 in the JS gateway, 50 in the Go gateway)
\* messages, and they are the most recent ones by timestamp of those received
\* for the address.
C35_HistoryCapped ==
    historyHandler # "none" => \A jid \in HistoryAddresses : CappedMostRecent(jid)

\* the batches of the JS gateway are capped to the most recent 200
JsHistoryCapped ==
    historyHandler \in {"messaging-history.set", "messages.upsert"} =>
        \A jid \in HistoryAddresses : CappedMostRecent(jid)

\* the batches of the Go gateway hold at most 50 messages an address
GoHistoryAtMostCap ==
    historyHandler = "handleHistorySync" =>
        \A jid \in HistoryAddresses : Len(emitted[jid]) <= 50

\* C36: a process writes at most one restart_requested event, whatever close
\* events are delivered before it exits.
C36_OneRestartRequest == Len(restartLog) <= 1

\* at most one restart_requested event is written for each close event handled
RestartsAtMostCloses == Len(restartLog) <= closes

\* C37: no lost wakeup in the queue worker.  With no worker loop running
\* isProcessingQueue is false and, the session being open, nothing is left in
\* the queue; with the session staying open every command enqueued gets
\* dequeued and completed and the queue becomes empty with the loop ended.
C37_NoLostWakeup ==
    /\ [](worker.pc = "idle" => ~isProcessingQueue)
    /\ []((isConnected /\ worker.pc = "idle") => messageQueue = <<>>)
    /\ \A c \in CmdIds : (isConnected /\ c < nextId) ~> (Completions(c) = 1)
    /\ isConnected ~> (messageQueue = <<>> /\ ~isProcessingQueue)

\* the second command arrived during the pause after the first one, both
\* after the open event
C37_Witness ==
    /\ isConnected
    /\ preOpen = {}
    /\ isProcessingQueue
    /\ worker.pc = "pause"
    /\ worker.cmd.id = 1
    /\ Len(messageQueue) = 1
    /\ messageQueue[1].id = 2

\* and that command is completed by the same loop
EnqueuedDuringPauseCompleted ==
    (C37_Witness) ~> (Completions(2) = 1 /\ messageQueue = <<>>)

\* C38: in the JS gateway a command of a type the if-chain does not name is
\* never in a send (nor in a retry wait), it is acknowledged once its
\* 'composing' presence has settled, and it gets an error event only when the
\* session is not open as it is dequeued.
C38_UnknownTypeAcked ==
    [][/\ worker'.cmd.type = "bogus" => worker'.pc \notin {"sending", "retryWait"}
       /\ (worker.cmd.type = "bogus" /\ worker.pc = "composing" /\ worker'.pc # "composing") =>
              /\ acks'[worker.cmd.id] = 1
              /\ errs'[worker.cmd.id] = 0
       /\ \A c \in CmdIds :
              (worker'.cmd.type = "bogus" /\ worker'.cmd.id = c /\ errs'[c] > errs[c]) =>
                  ~isConnected]_vars

\* the first command, of an unknown type, has its ack with the session open
C38_Witness ==
    /\ isConnected
    /\ worker.cmd.type = "bogus"
    /\ worker.cmd.id = 1
    /\ worker.pc = "paused"
    /\ acks[1] = 1
    /\ errs[1] = 0

\* in the Go gateway a command of an unknown type ends in an error event,
\* connected or not
GoUnknownTypeErrors ==
    [][\A c \in goSpawned \ goSpawned' :
           c.type = "bogus" => (goErrs'[c.id] = goErrs[c.id] + 1 /\ goAcks' = goAcks)]_vars

\* C39: in pairing-code mode at most one pairing-code request is in flight at
\* any time, no request is begun or made once one has succeeded, and the flag
\* is reset by a failed request only; without a phone number none is made.
C39_OnePairingRequest ==
    [][/\ waiting' + requesting' <= 1
       /\ succeeded >= 1 => (requestsMade' = requestsMade /\ waiting' = 0 /\ requesting' = 0)
       /\ (isPairingCodeRequested /\ ~isPairingCodeRequested') => failures' = failures + 1
       /\ ~pairingMode => requestsMade' = 0]_vars

\* a request failed, a later one succeeded, and updates kept coming
C39_Witness ==
    /\ pairingMode
    /\ failures = 1
    /\ succeeded = 1
    /\ requestsMade = 2
    /\ updates >= 4
    /\ waiting = 0
    /\ requesting = 0

\* C40: pLimit invokes every task exactly once, whatever the number of tasks
\* relative to the limit, and resolves only after every task has completed:
\* no task is invoked twice, none beyond the array, the tasks invoked are the
\* first `index` ones, and at resolution all were invoked and have settled.
C40_EveryTaskOnce ==
    revision = "part_001" =>
        /\ \A t \in TaskIds : started[t] = IF t < index THEN 1 ELSE 0
        /\ index <= tasksLen
        /\ limitPc = "resolved" =>
              /\ \A t \in TaskIds : t < tasksLen => started[t] = 1
              /\ settled = tasksLen
              /\ inFlight = 0

\* 21 tasks under a limit of 20: pLimit has resolved with all of them settled
C40_Witness ==
    /\ revision = "part_001"
    /\ limitPc = "resolved"
    /\ tasksLen = 21
    /\ settled = 21
    /\ started[20] = 1

====
